---- MODULE Spec2Model ----
EXTENDS Integers, Sequences, FiniteSets, TLC

(***************************************************************************)
(* A model of the network core of the browser: the keep-alive Request of   *)
(* src/src/request.rs, the redirect loop, the Engine and lex of            *)
(* src/browser/src/engine.rs, HtmlParser::parse of src/browser/src/lex.rs, *)
(* the URL parser of src/url/src/url.rs, the response cache of             *)
(* src/src/cache.rs, the Headers of src/src/headers.rs and the response    *)
(* parsers Response::from_stream and from_str of src/src/request.rs.       *)
(*                                                                         *)
(* Strings are sequences of one-character strings (graphemes), so that     *)
(* split_once, strip_prefix, starts_with, to_lowercase, the integer        *)
(* parsers and the loop of lex are computed on the characters as the code  *)
(* computes them.                                                          *)
(***************************************************************************)

VARIABLES
    part,           \* which component this behaviour exercises
    \* ---- Request (src/src/request.rs) ----
    keep_alive,     \* Request.keep_alive
    stream,         \* Request.stream: 0 = empty OnceCell, n > 0 = the n-th stream opened
    connects,       \* number of transports opened for this Request object
    nmake,          \* number of make calls so far
    connectedAt,    \* the make call (1-based) that opened the stream in the slot, 0 = none
    used,           \* per make call, the stream it wrote its request to (0 = none)
    errStreams,     \* streams on which a make call hit an I/O or parse error
    reusedAfterError, \* a make call wrote to a stream of errStreams
    lastResult,     \* result of the last make call
    \* ---- load_web_url (src/browser/src/engine.rs) ----
    lpc,            \* "idle", "loop" (a response is in hand), "done"
    lurl,           \* the url argument of load_web_url
    target,         \* the URL passed to the latest request.make
    hop,            \* the latest redirect taken: the URL that answered 3xx and its Location
    nreq,           \* number of request.make calls of this load
    nresp,          \* number of responses those calls returned
    num_redirects,  \* the loop counter
    response,       \* the latest response
    lresult,        \* what load_web_url returned
    reqHost,        \* the Host header Request::new seeded the Request of this load with
    transport,      \* the transport slot of that Request: [some, origin]
    opened,         \* the origins this load opened a connection to, in order
    written,        \* the requests this load wrote: [conn, host, path]
    \* ---- Cache (src/src/cache.rs) ----
    cache,          \* Cache.cache: WebUrl -> [arc, date, max_age]
    heap,           \* the Arc<Response> allocations: [resp, strong] by allocation number
    now,            \* Local::now(), in seconds since 1 Jan 1970 00:00:00 +0000
    handle,         \* the MaybeCachedResponse a caller holds: [some, arc]
    held,           \* the allocations a caller holds an upgraded strong reference to
    lastIns,        \* per URL, the Date and max-age of the last insert that succeeded
    lastOp,         \* the cache operation just performed
    \* ---- Engine (src/browser/src/engine.rs) ----
    server,         \* the Date and Cache-Control headers the server puts on its pages
    lastLoad,       \* the latest Engine::load: its argument and what it did
    \* ---- lex (src/browser/src/engine.rs) and HtmlParser::parse (src/browser/src/lex.rs) ----
    build,          \* "debug" (overflow checks on) or "release" (integers wrap)
    lexBody,        \* the graphemes of the body argument
    lexRender,      \* the render / parse_tags argument
    lexv,           \* the loop variables of lex: current_index, in_tag, skip_entity, result
    parser,         \* what parse has besides: current_buf, the add_text / add_tag calls
                    \* made (tokens), unfinished.len(), and whether one of them panicked
    lexpc,          \* "idle", "loop", "done" (returned), "panic", "never" (does not return)
    seen,           \* the <<current_index, skip_entity>> at the start of each iteration so far
    \* ---- Headers (src/src/headers.rs) ----
    headers,        \* Headers.headers: key -> the Vec of its values
    added,          \* the add_header_values calls made so far: [key, values]
    \* ---- Url (src/url/src/url.rs) ----
    upc,            \* "idle", "parsed" (from_str returned), "shown" (Display was re-parsed)
    uinput,         \* the string given to Url::from_str and the parts it was written from
    parsed,         \* what Url::from_str returned for it
    shown,          \* the Display form of the parsed Web URL
    reparsed,       \* what Url::from_str returned for the Display form
    repathed,       \* parsed.with_path(parsed.path)
    \* ---- Response (src/src/request.rs) ----
    wire,           \* the bytes a server answers one request with, and how they were written
    rsp             \* what Request::make made of them: [some, r]

reqVars == <<keep_alive, stream, connects, nmake, connectedAt, used, errStreams,
             reusedAfterError, lastResult>>

loadVars == <<lpc, lurl, target, hop, nreq, nresp, num_redirects, response, lresult,
              reqHost, transport, opened, written>>

cacheVars == <<cache, heap, now, handle, held, lastIns, lastOp>>

engineVars == <<server, lastLoad>>

lexVars == <<build, lexBody, lexRender, lexv, parser, lexpc, seen>>

headersVars == <<headers, added>>

urlVars == <<upc, uinput, parsed, shown, reparsed, repathed>>

respVars == <<wire, rsp>>

vars == <<part, reqVars, loadVars, cacheVars, engineVars, lexVars, headersVars, urlVars,
          respVars>>

\* ------------------------------------------------------------------ bounds

MaxCalls == 5
MaxTime == 3
MaxArcs == 2

\* ------------------------------------------------------------- Request

\* A slot that runs the closure on every call, replacing a stream it already holds.
GetMutOrTryInit_Reconnect(slot, connOk, fresh) ==
    IF connOk THEN [ok |-> TRUE, slot |-> fresh, opened |-> TRUE]
              ELSE [ok |-> slot # 0, slot |-> slot, opened |-> FALSE]

\* ReusableTcpStream::get_mut_or_try_init: the closure f runs only when the cell is
\* empty; its error leaves the cell empty (f()? returns before set).
GetMutOrTryInit(slot, connOk, fresh) ==
    IF slot = 0
    THEN IF connOk THEN [ok |-> TRUE, slot |-> fresh, opened |-> TRUE]
                   ELSE [ok |-> FALSE, slot |-> 0, opened |-> FALSE]
    ELSE [ok |-> TRUE, slot |-> slot, opened |-> FALSE]

\* Request::init: an empty transport slot.
RequestNew(ka) ==
    /\ keep_alive = ka
    /\ stream = 0
    /\ connects = 0
    /\ nmake = 0
    /\ connectedAt = 0
    /\ used = <<>>
    /\ errStreams = {}
    /\ reusedAfterError = FALSE
    /\ lastResult = "none"

\* Request::make. connOk: TcpStream::connect (and the TLS setup) succeeds; wrOk:
\* write_all succeeds; rd: the outcome of reading and parsing the response
\* (from_stream when keep_alive, read_to_string + from_str otherwise).
Make(connOk, wrOk, rd) ==
    LET g == GetMutOrTryInit(stream, connOk, connects + 1) IN
    /\ part = "request"
    /\ nmake < MaxCalls
    /\ nmake' = nmake + 1
    /\ stream' = g.slot
    /\ connects' = IF g.opened THEN connects + 1 ELSE connects
    /\ connectedAt' = IF g.opened THEN nmake + 1 ELSE connectedAt
    /\ UNCHANGED <<keep_alive, part, respVars, urlVars, headersVars, lexVars, engineVars, loadVars, cacheVars>>
    /\ IF ~g.ok
       THEN /\ lastResult' = "ConnectionFailed"
            /\ used' = Append(used, 0)
            /\ UNCHANGED <<errStreams, reusedAfterError>>
       ELSE /\ used' = Append(used, g.slot)
            /\ reusedAfterError' = (reusedAfterError \/ g.slot \in errStreams)
            /\ IF ~wrOk
               THEN /\ lastResult' = "Io"
                    /\ errStreams' = errStreams \cup {g.slot}
               ELSE IF rd = "ok"
               THEN /\ lastResult' = "ok"
                    /\ errStreams' = errStreams
               ELSE /\ lastResult' = rd
                    /\ errStreams' = errStreams \cup {g.slot}

MakeCall == \E connOk \in BOOLEAN, wrOk \in BOOLEAN, rd \in {"ok", "Io", "Parse"} :
                Make(connOk, wrOk, rd)

\* ------------------------------------------------------------- strings

\* str::find of one character: the index of its first occurrence, 0 when absent.
IndexOf(s, c) ==
    IF \E i \in 1..Len(s) : s[i] = c
    THEN CHOOSE i \in 1..Len(s) : s[i] = c /\ \A j \in 1..(i - 1) : s[j] # c
    ELSE 0

\* str::starts_with
StartsWith(s, p) == Len(s) >= Len(p) /\ SubSeq(s, 1, Len(p)) = p

\* str::strip_prefix
StripPrefix(s, p) ==
    IF StartsWith(s, p) THEN [some |-> TRUE, rest |-> SubSeq(s, Len(p) + 1, Len(s))]
                        ELSE [some |-> FALSE, rest |-> <<>>]

\* str::split_once on one character: around its first occurrence.
SplitOnce(s, c) ==
    LET i == IndexOf(s, c) IN
    IF i = 0 THEN [some |-> FALSE, left |-> <<>>, right |-> <<>>]
             ELSE [some |-> TRUE, left |-> SubSeq(s, 1, i - 1),
                   right |-> SubSeq(s, i + 1, Len(s))]

DigitChars == <<"0", "1", "2", "3", "4", "5", "6", "7", "8", "9">>

IsDigit(c) == \E d \in 1..10 : DigitChars[d] = c

DigitVal(c) == (CHOOSE d \in 1..10 : DigitChars[d] = c) - 1

U16Max == 65535

\* The digit loop of the unsigned integer parsers, with the checked multiply and
\* add: -1 on a character that is no digit, -2 on overflow past max.
RECURSIVE ParseDigits(_, _, _)
ParseDigits(s, acc, max) ==
    IF s = <<>> THEN acc
    ELSE IF ~IsDigit(Head(s)) THEN -1
    ELSE LET v == acc * 10 + DigitVal(Head(s)) IN
         IF v > max THEN -2 ELSE ParseDigits(Tail(s), v, max)

\* str::parse::<u16>: an optional leading '+', then at least one digit, no overflow.
ParseU16(s) ==
    LET body == IF s # <<>> /\ Head(s) = "+" THEN Tail(s) ELSE s
        v == ParseDigits(body, 0, U16Max)
    IN  IF s = <<>> \/ body = <<>> \/ v < 0 THEN [ok |-> FALSE, v |-> 0]
                                            ELSE [ok |-> TRUE, v |-> v]

\* ----------------------------------------------------------------- URLs

SchemeHttp == <<"h", "t", "t", "p">>
SchemeHttps == <<"h", "t", "t", "p", "s">>
SchemeFile == <<"f", "i", "l", "e">>
SchemeData == <<"d", "a", "t", "a">>
SchemeViewSource == <<"v", "i", "e", "w", "-", "s", "o", "u", "r", "c", "e">>
SchemeAbout == <<"a", "b", "o", "u", "t">>

\* Scheme::from_str
SchemeFromStr(s) ==
    CASE s = SchemeHttp -> "Http"
      [] s = SchemeHttps -> "Https"
      [] s = SchemeFile -> "File"
      [] s = SchemeData -> "Data"
      [] s = SchemeViewSource -> "ViewSource"
      [] s = SchemeAbout -> "About"
      [] OTHER -> "UnknownScheme"

\* A default_port that is 80 for https too.
DefaultPort_Http(scheme) == IF scheme \in {"Http", "Https"} THEN 80 ELSE 0

\* Scheme::default_port (0 stands for None)
DefaultPort(scheme) ==
    CASE scheme = "Http" -> 80
      [] scheme = "Https" -> 443
      [] OTHER -> 0

UrlErr(e) == [kind |-> "Err", err |-> e]

WebUrl(scheme, host, path, port) ==
    [kind |-> "Web", scheme |-> scheme, host |-> host, path |-> path, port |-> port]

\* DataUrl::from_str
DataUrlFromStr(s) ==
    LET sp == SplitOnce(s, ",") IN
    IF ~sp.some THEN UrlErr("Split")
    ELSE [kind |-> "Data", mimetype |-> sp.left, data |-> sp.right]

\* AboutValue::from_str
AboutFromStr(s) ==
    IF s = <<"b", "l", "a", "n", "k">> THEN [kind |-> "About", value |-> "Blank"]
                                       ELSE UrlErr("InvalidUrl")

\* Url::from_str for http, https and file, after the scheme: the "//" prefix, the
\* "/" appended when there is none, host and path, and the port.
HierUrlFromStr(scheme, url_rest) ==
    LET sp == StripPrefix(url_rest, <<"/", "/">>)
        url == IF IndexOf(sp.rest, "/") # 0 THEN sp.rest ELSE sp.rest \o <<"/">>
        hp == SplitOnce(url, "/")
        path == <<"/">> \o hp.right
        hostport == SplitOnce(hp.left, ":")
        port == ParseU16(hostport.right)
    IN  IF ~sp.some THEN UrlErr("Split")
        ELSE IF scheme \in {"Http", "Https"}
        THEN IF hostport.some
             THEN IF port.ok THEN WebUrl(scheme, hostport.left, path, port.v)
                             ELSE UrlErr("InvalidPort")
             ELSE WebUrl(scheme, hp.left, path, DefaultPort(scheme))
        ELSE [kind |-> "File", host |-> hp.left, path |-> path]

\* Url::from_str
RECURSIVE UrlFromStr(_)
UrlFromStr(url) ==
    LET sp == SplitOnce(url, ":")
        scheme == SchemeFromStr(sp.left)
    IN  IF ~sp.some THEN UrlErr("Split")
        ELSE IF scheme = "UnknownScheme" THEN UrlErr("UnknownScheme")
        ELSE IF scheme = "Data" THEN DataUrlFromStr(sp.right)
        ELSE IF scheme = "ViewSource"
        THEN LET inner == UrlFromStr(sp.right) IN
             IF inner.kind = "Err" THEN inner
             ELSE IF inner.kind = "Web" THEN [inner EXCEPT !.kind = "ViewSource"]
             ELSE UrlErr("InvalidUrl")
        ELSE IF scheme = "About" THEN AboutFromStr(sp.right)
        ELSE HierUrlFromStr(scheme, sp.right)

\* WebUrl::with_path
WithPath(url, path) == WebUrl(url.scheme, url.host, path, url.port)

\* Display for Scheme: the Debug name in lower case.
SchemeDisplay(scheme) ==
    CASE scheme = "Http" -> SchemeHttp
      [] scheme = "Https" -> SchemeHttps
      [] scheme = "File" -> SchemeFile
      [] scheme = "Data" -> SchemeData
      [] scheme = "ViewSource" -> SchemeViewSource
      [] scheme = "About" -> SchemeAbout

\* Display for u16: the decimal digits of n.
RECURSIVE U16Display(_)
U16Display(n) ==
    IF n < 10 THEN <<DigitChars[n + 1]>>
    ELSE Append(U16Display(n \div 10), DigitChars[(n % 10) + 1])

\* A Display for WebUrl that leaves the port out.
WebUrlDisplay_NoPort(url) == SchemeDisplay(url.scheme) \o <<":", "/", "/">> \o url.host \o url.path

\* Display for WebUrl: "{scheme}://{host}:{port}{path}"
WebUrlDisplay(url) ==
    SchemeDisplay(url.scheme) \o <<":", "/", "/">> \o url.host \o <<":">>
        \o U16Display(url.port) \o url.path

\* ------------------------------------------------------- load_web_url

MAX_REDIRECTS == 5

NoUrl == [kind |-> "None"]
NoHop == [some |-> FALSE, from |-> NoUrl, loc |-> <<>>]
NoResponse == [status |-> 0, headers |-> <<>>, body |-> [some |-> FALSE, v |-> <<>>]]
NoResult == [kind |-> "None"]

KeyLocation == <<"l", "o", "c", "a", "t", "i", "o", "n">>

\* Headers::get: the values stored under the key, if any.
HeadersGet(h, key) ==
    IF key \in DOMAIN h THEN [some |-> TRUE, values |-> h[key]]
                        ELSE [some |-> FALSE, values |-> <<>>]

\* The first value of the Location header, the empty string when there is none.
FirstLocation(resp) ==
    LET loc == HeadersGet(resp.headers, KeyLocation) IN
    IF loc.some /\ loc.values # <<>> THEN Head(loc.values) ELSE <<>>

\* (300..400).contains(&status_code)
IsRedirect(status) == status >= 300 /\ status < 400

\* The loop condition with an off-by-one cap.
ContinueRedirect_OffByOne(status, n) == IsRedirect(status) /\ n <= MAX_REDIRECTS

\* The condition of the while loop of load_web_url.
ContinueRedirect(status, n) == IsRedirect(status) /\ n < MAX_REDIRECTS

\* A loop body that follows a 3xx without Location to the URL it started from.
RedirectTarget_IgnoreMissing(url, resp) ==
    LET loc == HeadersGet(resp.headers, KeyLocation) IN
    IF ~loc.some \/ loc.values = <<>> THEN url
    ELSE LET v == Head(loc.values)
             new == IF StartsWith(v, <<"/">>) THEN WithPath(url, v) ELSE UrlFromStr(v)
         IN  IF new.kind = "Err" THEN [kind |-> "Err", err |-> "ParseUrl"]
             ELSE IF new.kind # "Web" THEN [kind |-> "Err", err |-> "NotWebUrl"]
             ELSE new

\* The body of the while loop up to the next request: the Location header, its
\* first value, with_path on url for a leading '/', Url::from_str otherwise, and
\* as_web_url. url is the argument of load_web_url.
RedirectTarget(url, resp) ==
    LET loc == HeadersGet(resp.headers, KeyLocation) IN
    IF ~loc.some THEN [kind |-> "Err", err |-> "Redirect: Missing Location header"]
    ELSE IF loc.values = <<>>
    THEN [kind |-> "Err", err |-> "Redirect: Missing Location value"]
    ELSE LET v == Head(loc.values)
             new == IF StartsWith(v, <<"/">>) THEN WithPath(url, v) ELSE UrlFromStr(v)
         IN  IF new.kind = "Err" THEN [kind |-> "Err", err |-> "ParseUrl"]
             ELSE IF new.kind # "Web" THEN [kind |-> "Err", err |-> "NotWebUrl"]
             ELSE new

\* What load_web_url does after the loop: the error when the status is still 3xx,
\* the response otherwise.
AfterLoop(resp) ==
    IF IsRedirect(resp.status) THEN [kind |-> "Err", err |-> "Redirect: Too many redirects."]
                               ELSE [kind |-> "Ok", response |-> resp]

\* The URL strings a load starts from.
StartUrlStrings ==
    { <<"h", "t", "t", "p", ":", "/", "/", "a">>,
      <<"h", "t", "t", "p", "s", ":", "/", "/", "b", ":", "8", "/", "x">> }

\* The Location headers a server may send with a 3xx.
LocationValues ==
    { <<>>,                                                      \* header with no value
      << <<"/", "y">> >>,
      << <<"/", "z">>, <<"/", "y">> >>,
      << <<"h", "t", "t", "p", ":", "/", "/", "c", "/", "x">> >>,
      << <<"d", "a", "t", "a", ":", "t", ",", "x">> >>,
      << <<"x">> >> }

Resp(status, response_headers) ==
    [status |-> status, headers |-> response_headers, body |-> [some |-> FALSE, v |-> <<>>]]

\* What the server may answer to one request.
ServerResponses ==
    {Resp(st, <<>>) : st \in {299, 300, 399, 400}}
        \cup {Resp(st, KeyLocation :> lv) : st \in {300, 399}, lv \in LocationValues}

\* Where connect_insecure / connect_secure connect to for url.
Origin(url) == [scheme |-> url.scheme, host |-> url.host, port |-> url.port]

NoOrigin == [scheme |-> "", host |-> <<>>, port |-> 0]

EmptySlot == [some |-> FALSE, origin |-> NoOrigin]

\* A make that connects anew for the url of each call.
MakeSlot_PerUrl(s, url) == [some |-> TRUE, origin |-> Origin(url)]

\* The transport transport after make(url, None) connected: initialised on the first
\* call, for the url of that call, and reused thereafter.
MakeSlot(s, url) == IF s.some THEN s ELSE [some |-> TRUE, origin |-> Origin(url)]

\* The request make(url, None) writes: to the connection of the transport, with the Host
\* header seeded by Request::new and the path of url.
MakeWrites(s, host, url) == [conn |-> s.origin, host |-> host, path |-> url.path]

\* The transport, the connections opened and the requests written after a make(url, None)
\* on a Request with the Host header host; connOk: the transport is connected, or was.
MakeEffects(host, url, connOk) ==
    /\ transport' = IF connOk THEN MakeSlot(transport, url) ELSE transport
    /\ opened' = IF connOk /\ MakeSlot(transport, url) # transport
                  THEN Append(opened, MakeSlot(transport, url).origin) ELSE opened
    /\ written' = IF connOk THEN Append(written, MakeWrites(MakeSlot(transport, url), host, url))
                   ELSE written

LoadIdle ==
    /\ lpc = "idle"
    /\ lurl = NoUrl
    /\ target = NoUrl
    /\ hop = NoHop
    /\ nreq = 0
    /\ nresp = 0
    /\ num_redirects = 0
    /\ response = NoResponse
    /\ lresult = NoResult
    /\ reqHost = <<>>
    /\ transport = EmptySlot
    /\ opened = <<>>
    /\ written = <<>>

\* load_web_url up to its first response: Request::new for url.host, and
\* request.make(url), which fails (ok = FALSE) or yields resp.
LoadStart(u, ok, resp) ==
    /\ part = "redirect"
    /\ lpc = "idle"
    /\ reqHost' = u.host
    /\ \E connOk \in BOOLEAN : (ok => connOk) /\ MakeEffects(u.host, u, connOk)
    /\ lurl' = u
    /\ target' = u
    /\ nreq' = 1
    /\ IF ok THEN /\ response' = resp
                  /\ nresp' = 1
                  /\ lpc' = "loop"
                  /\ lresult' = lresult
             ELSE /\ response' = response
                  /\ nresp' = 0
                  /\ lpc' = "done"
                  /\ lresult' = [kind |-> "Err", err |-> "Load"]
    /\ UNCHANGED <<hop, num_redirects, part, respVars, urlVars, headersVars, lexVars, engineVars, reqVars, cacheVars>>

\* One evaluation of the while condition of load_web_url with a response in hand:
\* either the loop body, with its request.make (which fails or yields resp), or the
\* code after the loop.
LoadLoop(ok, resp) ==
    /\ part = "redirect"
    /\ lpc = "loop"
    /\ IF ContinueRedirect(response.status, num_redirects)
       THEN IF RedirectTarget(lurl, response).kind = "Err"
            THEN UNCHANGED <<transport, opened, written>>
            ELSE MakeEffects(reqHost, RedirectTarget(lurl, response), TRUE)
       ELSE UNCHANGED <<transport, opened, written>>
    /\ IF ContinueRedirect(response.status, num_redirects)
       THEN LET new_url == RedirectTarget(lurl, response) IN
            IF new_url.kind = "Err"
            THEN /\ lpc' = "done"
                 /\ lresult' = new_url
                 /\ UNCHANGED <<target, hop, nreq, nresp, num_redirects, response>>
            ELSE /\ target' = new_url
                 /\ hop' = [some |-> TRUE, from |-> target, loc |-> FirstLocation(response)]
                 /\ nreq' = nreq + 1
                 /\ IF ok THEN /\ response' = resp
                               /\ nresp' = nresp + 1
                               /\ num_redirects' = num_redirects + 1
                               /\ UNCHANGED <<lpc, lresult>>
                          ELSE /\ lpc' = "done"
                               /\ lresult' = [kind |-> "Err", err |-> "Load"]
                               /\ UNCHANGED <<response, nresp, num_redirects>>
       ELSE /\ lpc' = "done"
            /\ lresult' = AfterLoop(response)
            /\ UNCHANGED <<target, hop, nreq, nresp, num_redirects, response>>
    /\ UNCHANGED <<lurl, reqHost, part, respVars, urlVars, headersVars, lexVars, engineVars, reqVars,
                   cacheVars>>

\* ---------------------------------------------------------------- Cache

KeyDate == <<"d", "a", "t", "e">>
KeyCacheControl == <<"c", "a", "c", "h", "e", "-", "c", "o", "n", "t", "r", "o", "l">>
MaxAgePrefix == <<"m", "a", "x", "-", "a", "g", "e", "=">>

\* Headers::get_single_value: None when the header is absent, Ok(value) when it has
\* one value, Err(NotOneValue(n)) otherwise.
GetSingleValue(h, key) ==
    IF key \notin DOMAIN h THEN [kind |-> "None"]
    ELSE IF Len(h[key]) = 1 THEN [kind |-> "Ok", value |-> h[key][1]]
    ELSE [kind |-> "Err", n |-> Len(h[key])]

\* The decimal digits of a number without its leading zeros.
RECURSIVE StripZeros(_)
StripZeros(d) == IF Len(d) > 1 /\ Head(d) = "0" THEN StripZeros(Tail(d)) ELSE d

\* a <= b for two decimal numbers without leading zeros.
DecLeq(a, b) ==
    \/ Len(a) < Len(b)
    \/ /\ Len(a) = Len(b)
       /\ \/ a = b
          \/ \E i \in 1..Len(a) : /\ \A j \in 1..(i - 1) : a[j] = b[j]
                                  /\ DigitVal(a[i]) < DigitVal(b[i])

\* u64::MAX
U64MaxDec ==
    <<"1", "8", "4", "4", "6", "7", "4", "4", "0", "7", "3", "7", "0", "9", "5", "5",
      "1", "6", "1", "5">>

\* The seconds of TimeDelta::MAX (i64::MAX milliseconds).
TimeDeltaMaxSecsDec ==
    <<"9", "2", "2", "3", "3", "7", "2", "0", "3", "6", "8", "5", "4", "7", "7", "5">>

\* str::parse::<u64>: an optional leading '+', then at least one digit, no overflow.
\* The value is kept as its decimal digits.
ParseU64(s) ==
    LET body == IF s # <<>> /\ Head(s) = "+" THEN Tail(s) ELSE s IN
    IF s = <<>> \/ body = <<>> \/ \E i \in 1..Len(body) : ~IsDigit(body[i])
    THEN [ok |-> FALSE, dec |-> <<>>]
    ELSE IF ~DecLeq(StripZeros(body), U64MaxDec) THEN [ok |-> FALSE, dec |-> <<>>]
    ELSE [ok |-> TRUE, dec |-> StripZeros(body)]

\* TimeDelta::from_std of Duration::from_secs(secs): out of range past TimeDelta::MAX.
TimeDeltaFromStd(dec) == [ok |-> DecLeq(dec, TimeDeltaMaxSecsDec), secs |-> dec]

\* Two decimal digits at s[i], s[i+1]; -1 when either is no digit.
TwoDigits(s, i) ==
    IF IsDigit(s[i]) /\ IsDigit(s[i + 1]) THEN DigitVal(s[i]) * 10 + DigitVal(s[i + 1])
                                          ELSE -1

\* DateTime::parse_from_rfc2822 on timestamps of the shape
\* "dd Jan 1970 hh:mm:ss +hhmm" (the dates the model draws from); any other string
\* of the model's inputs is not a timestamp. The result is the instant, in seconds
\* since 1 Jan 1970 00:00:00 +0000: the zone offset is subtracted.
ParseRfc2822(s) ==
    IF Len(s) # 26 THEN [ok |-> FALSE, secs |-> 0]
    ELSE LET day == TwoDigits(s, 1)
             hh == TwoDigits(s, 13)
             mm == TwoDigits(s, 16)
             ss == TwoDigits(s, 19)
             zh == TwoDigits(s, 23)
             zm == TwoDigits(s, 25)
             sign == IF s[22] = "-" THEN -1 ELSE 1
             shape == /\ SubSeq(s, 3, 12) = <<" ", "J", "a", "n", " ", "1", "9", "7", "0", " ">>
                      /\ s[15] = ":" /\ s[18] = ":" /\ s[21] = " "
                      /\ s[22] \in {"+", "-"}
                      /\ day >= 1 /\ day <= 31
                      /\ hh >= 0 /\ hh <= 23
                      /\ mm >= 0 /\ mm <= 59
                      /\ ss >= 0 /\ ss <= 59
                      /\ zh >= 0 /\ zm >= 0 /\ zm <= 59
         IN  IF ~shape THEN [ok |-> FALSE, secs |-> 0]
             ELSE [ok |-> TRUE,
                   secs |-> (day - 1) * 86400 + hh * 3600 + mm * 60 + ss
                               - sign * (zh * 3600 + zm * 60)]

\* ResponseWithCacheProperties::parse_cache_properties
ParseCacheProperties(resp) ==
    LET dv == GetSingleValue(resp.headers, KeyDate)
        date == ParseRfc2822(dv.value)
        cc == GetSingleValue(resp.headers, KeyCacheControl)
        stripped == StripPrefix(cc.value, MaxAgePrefix)
        secs == ParseU64(stripped.rest)
        max_age == TimeDeltaFromStd(secs.dec)
        err == [ok |-> FALSE, date |-> 0, max_age |-> <<>>]
    IN  IF dv.kind # "Ok" THEN err
        ELSE IF ~date.ok THEN err
        ELSE IF cc.kind # "Ok" THEN err
        ELSE IF ~stripped.some THEN err
        ELSE IF ~secs.ok THEN err
        ELSE IF ~max_age.ok THEN err
        ELSE [ok |-> TRUE, date |-> date.secs, max_age |-> max_age.secs]

\* ------------------------------------------------------- Cache inputs

\* Date header values: second 1, and second 3 written with a zone offset.
Date1 ==
    <<"0", "1", " ", "J", "a", "n", " ", "1", "9", "7", "0", " ", "0", "0", ":", "0",
      "0", ":", "0", "1", " ", "+", "0", "0", "0", "0">>

Date3 ==
    <<"0", "1", " ", "J", "a", "n", " ", "1", "9", "7", "0", " ", "0", "1", ":", "0",
      "0", ":", "0", "3", " ", "+", "0", "1", "0", "0">>

DateBad ==
    <<"n", "o", "w">>

\* Cache-Control header values.
CcAge0 ==
    <<"m", "a", "x", "-", "a", "g", "e", "=", "0">>

CcAge2 ==
    <<"m", "a", "x", "-", "a", "g", "e", "=", "2">>

CcAgePlus ==
    <<"m", "a", "x", "-", "a", "g", "e", "=", "+", "2">>

CcAgeMax ==
    <<"m", "a", "x", "-", "a", "g", "e", "=", "9", "2", "2", "3", "3", "7", "2", "0",
      "3", "6", "8", "5", "4", "7", "7", "5">>

CcAgeOver ==
    <<"m", "a", "x", "-", "a", "g", "e", "=", "9", "2", "2", "3", "3", "7", "2", "0",
      "3", "6", "8", "5", "4", "7", "7", "6">>

CcAgeU64 ==
    <<"m", "a", "x", "-", "a", "g", "e", "=", "1", "8", "4", "4", "6", "7", "4", "4",
      "0", "7", "3", "7", "0", "9", "5", "5", "1", "6", "1", "6">>

CcNegative ==
    <<"m", "a", "x", "-", "a", "g", "e", "=", "-", "1">>

CcNoCache ==
    <<"n", "o", "-", "c", "a", "c", "h", "e">>

\* A response with the given Date and Cache-Control headers: each is "absent" or
\* the list of the header's values.
CacheResp(date, cc) ==
    [status |-> 200,
     headers |-> (IF date = "absent" THEN <<>> ELSE KeyDate :> date)
                     @@ (IF cc = "absent" THEN <<>> ELSE KeyCacheControl :> cc),
     body |-> [some |-> TRUE, v |-> <<"x">>]]

\* An input of insert: the response, whether it carries one parseable Date and one
\* Cache-Control of the form max-age=<non-negative integer> (wellFormed), whether
\* that integer fits a signed duration (fits), and the Date (seconds) and max-age
\* (decimal seconds) it states.
Vec(date, cc, wellFormed, fits, d, n) ==
    [resp |-> CacheResp(date, cc), wellFormed |-> wellFormed, fits |-> fits,
     d |-> d, n |-> n]

CacheVectors ==
    { Vec(<<Date1>>, <<CcAge2>>, TRUE, TRUE, 1, <<"2">>),
      Vec(<<Date3>>, <<CcAge0>>, TRUE, TRUE, 3, <<"0">>),
      Vec(<<Date3>>, <<CcAgePlus>>, TRUE, TRUE, 3, <<"2">>),
      Vec(<<Date1>>, <<CcAgeMax>>, TRUE, TRUE, 1, TimeDeltaMaxSecsDec),
      Vec(<<Date1>>, <<CcAgeOver>>, TRUE, FALSE, 1, <<>>),
      Vec(<<Date1>>, <<CcAgeU64>>, TRUE, FALSE, 1, <<>>),
      Vec("absent", <<CcAge2>>, FALSE, FALSE, 0, <<>>),
      Vec(<<>>, <<CcAge2>>, FALSE, FALSE, 0, <<>>),
      Vec(<<DateBad>>, <<CcAge2>>, FALSE, FALSE, 0, <<>>),
      Vec(<<Date1, Date3>>, <<CcAge2>>, FALSE, FALSE, 0, <<>>),
      Vec(<<Date1>>, "absent", FALSE, FALSE, 0, <<>>),
      Vec(<<Date1>>, <<CcAge2, CcAge0>>, FALSE, FALSE, 0, <<>>),
      Vec(<<Date1>>, <<CcNoCache>>, FALSE, FALSE, 0, <<>>),
      Vec(<<Date1>>, <<CcNegative>>, FALSE, FALSE, 0, <<>>) }

CacheUrls == {UrlFromStr(s) : s \in StartUrlStrings}

NoVec == [resp |-> NoResponse, wellFormed |-> FALSE, fits |-> FALSE, d |-> 0, n |-> <<>>]
NoIns == [some |-> FALSE, d |-> 0, n |-> <<>>]
OtherOp == [kind |-> "other", url |-> NoUrl, v |-> NoVec, ok |-> FALSE]

\* ResponseWithCacheProperties::new calls parse_cache_properties on the response:
\* its results for the responses of the model, computed once.
CacheProps ==
    [h \in {v.resp.headers : v \in CacheVectors} |-> ParseCacheProperties([headers |-> h])]

PropsOf(resp) ==
    IF resp.headers \in DOMAIN CacheProps THEN CacheProps[resp.headers]
                                          ELSE ParseCacheProperties(resp)

\* delta < max_age, for a delta in seconds and a max_age in decimal digits of seconds.
DeltaLess(delta, max_age) ==
    \/ delta < 0
    \/ Len(max_age) > 9
    \/ delta < ParseDigits(max_age, 0, 999999999)

\* The strong reference of allocation a is dropped.
DropStrong(hp, a) == [hp EXCEPT ![a].strong = hp[a].strong - 1]

\* An insert that stores every response, whatever its headers.
CacheInsert_StoreAlways(c, hp, url, resp) ==
    LET p == PropsOf(resp)
        a == Len(hp) + 1
        hp1 == IF url \in DOMAIN c THEN DropStrong(hp, c[url].arc) ELSE hp
    IN  [ok |-> p.ok,
         cache |-> (url :> [arc |-> a, date |-> p.date, max_age |-> p.max_age]) @@ c,
         heap |-> Append(hp1, [resp |-> resp, strong |-> 1])]

\* An insert that keeps the replaced entry's response alive.
CacheInsert_Leak(c, hp, url, resp) ==
    LET p == PropsOf(resp)
        a == Len(hp) + 1
    IN  IF ~p.ok THEN [ok |-> FALSE, cache |-> c, heap |-> hp]
        ELSE [ok |-> TRUE,
              cache |-> (url :> [arc |-> a, date |-> p.date, max_age |-> p.max_age]) @@ c,
              heap |-> Append(hp, [resp |-> resp, strong |-> 1])]

\* Cache::insert, with ResponseWithCacheProperties::new: on a parse error nothing
\* changes; otherwise the response goes into a new Arc and the map entry is set,
\* which drops the entry it replaces and with it that entry's strong reference.
CacheInsert(c, hp, url, resp) ==
    LET p == PropsOf(resp)
        a == Len(hp) + 1
        hp1 == IF url \in DOMAIN c THEN DropStrong(hp, c[url].arc) ELSE hp
    IN  IF ~p.ok THEN [ok |-> FALSE, cache |-> c, heap |-> hp]
        ELSE [ok |-> TRUE,
              cache |-> (url :> [arc |-> a, date |-> p.date, max_age |-> p.max_age]) @@ c,
              heap |-> Append(hp1, [resp |-> resp, strong |-> 1])]

\* Cache::remove: the entry leaves the map and Arc::unwrap_or_clone consumes its
\* strong reference.
CacheRemove(c, hp, url) ==
    IF url \in DOMAIN c
    THEN [cache |-> [u \in DOMAIN c \ {url} |-> c[u]], heap |-> DropStrong(hp, c[url].arc)]
    ELSE [cache |-> c, heap |-> hp]

NoHandle == [some |-> FALSE, arc |-> 0]

\* A get that serves an entry up to and including the instant it expires.
CacheGet_Inclusive(c, url, t) ==
    IF url \in DOMAIN c /\ DeltaLess(t - c[url].date - 1, c[url].max_age)
    THEN [some |-> TRUE, arc |-> c[url].arc]
    ELSE NoHandle

\* Cache::get at time t: a weak handle to the entry's response while
\* t - date < max_age, the default (empty) handle otherwise.
CacheGet(c, url, t) ==
    IF url \in DOMAIN c /\ DeltaLess(t - c[url].date, c[url].max_age)
    THEN [some |-> TRUE, arc |-> c[url].arc]
    ELSE NoHandle

\* MaybeCachedResponse::get: Weak::upgrade of the inner handle, if any.
Upgrade(hp, h) ==
    IF h.some /\ hp[h.arc].strong > 0 THEN [some |-> TRUE, resp |-> hp[h.arc].resp]
                                       ELSE [some |-> FALSE, resp |-> NoResponse]

\* ------------------------------------------------------ Cache operations

\* Cache::default: an empty map; nothing allocated, no handle given out.
CacheNew ==
    /\ cache = <<>>
    /\ heap = <<>>
    /\ now = 0
    /\ handle = NoHandle
    /\ held = {}
    /\ lastIns = [u \in CacheUrls |-> NoIns]
    /\ lastOp = OtherOp

\* cache.insert(url, v.resp)
DoInsert(url, v) ==
    LET r == CacheInsert(cache, heap, url, v.resp) IN
    /\ part = "cache"
    /\ Len(heap) < MaxArcs
    /\ cache' = r.cache
    /\ heap' = r.heap
    /\ lastIns' = IF r.ok THEN [lastIns EXCEPT ![url] = [some |-> TRUE, d |-> v.d, n |-> v.n]]
                          ELSE lastIns
    /\ lastOp' = [kind |-> "insert", url |-> url, v |-> v, ok |-> r.ok]
    /\ UNCHANGED <<now, handle, held, part, respVars, urlVars, headersVars, lexVars, engineVars, reqVars, loadVars>>

\* cache.remove(url)
DoRemove(url) ==
    LET r == CacheRemove(cache, heap, url) IN
    /\ part = "cache"
    /\ url \in DOMAIN cache
    /\ cache' = r.cache
    /\ heap' = r.heap
    /\ lastOp' = OtherOp
    /\ UNCHANGED <<now, handle, held, lastIns, part, respVars, urlVars, headersVars, lexVars, engineVars, reqVars, loadVars>>

\* A get that removes the entry it finds stale.
DoGet_Evict(url) ==
    /\ part = "cache"
    /\ handle' = CacheGet(cache, url, now)
    /\ cache' = IF CacheGet(cache, url, now).some THEN cache
                 ELSE CacheRemove(cache, heap, url).cache
    /\ heap' = IF CacheGet(cache, url, now).some THEN heap
                ELSE CacheRemove(cache, heap, url).heap
    /\ lastOp' = OtherOp
    /\ UNCHANGED <<now, held, lastIns, part, respVars, urlVars, headersVars, lexVars, engineVars, reqVars, loadVars>>

\* cache.get(url): the caller keeps the handle.
DoGet(url) ==
    /\ part = "cache"
    /\ handle' = CacheGet(cache, url, now)
    /\ lastOp' = OtherOp
    /\ UNCHANGED <<cache, heap, now, held, lastIns, part, respVars, urlVars, headersVars, lexVars, engineVars, reqVars, loadVars>>

\* handle.get(): the caller upgrades its handle and keeps the strong reference.
DoUpgrade ==
    /\ part = "cache"
    /\ Upgrade(heap, handle).some
    /\ handle.arc \notin held
    /\ held' = held \cup {handle.arc}
    /\ heap' = [heap EXCEPT ![handle.arc].strong = heap[handle.arc].strong + 1]
    /\ lastOp' = OtherOp
    /\ UNCHANGED <<cache, now, handle, lastIns, part, respVars, urlVars, headersVars, lexVars, engineVars, reqVars, loadVars>>

\* The caller drops an upgraded strong reference.
DoDrop(a) ==
    /\ part = "cache"
    /\ a \in held
    /\ held' = held \ {a}
    /\ heap' = DropStrong(heap, a)
    /\ lastOp' = OtherOp
    /\ UNCHANGED <<cache, now, handle, lastIns, part, respVars, urlVars, headersVars, lexVars, engineVars, reqVars, loadVars>>

\* Time passes.
Tick ==
    /\ part \in {"cache", "engine"}
    /\ now < MaxTime
    /\ now' = now + 1
    /\ lastOp' = OtherOp
    /\ UNCHANGED <<cache, heap, handle, held, lastIns, part, respVars, urlVars, headersVars, lexVars, engineVars, reqVars, loadVars>>

\* --------------------------------------------------------------- Engine

MAX_ENTITY_LEN == 26

\* str::len of one grapheme, in bytes (UTF-8).
ByteLen(grapheme) ==
    CASE grapheme = "é" -> 2
      [] grapheme = "€" -> 3
      [] OTHER -> 1

Builds == {"debug", "release"}

\* current_index < graphemes.len() for a current_index of type usize: a negative i
\* stands for the wrapped value 2^64 + i, which is above every length.
UsizeLess(i, n) == i >= 0 /\ i < n

\* The inner loop of lex: graphemes are appended to current_entity from index i
\* (0-based) until a ";" was appended, current_entity.len() is MAX_ENTITY_LEN, or
\* the input ends.
RECURSIVE ScanEntity(_, _, _, _)
ScanEntity(graphemes, i, current_entity, bytes) ==
    IF i >= Len(graphemes) THEN [entity |-> current_entity, bytes |-> bytes, next |-> i]
    ELSE LET g == graphemes[i + 1]
             e == Append(current_entity, g)
             b == bytes + ByteLen(g)
         IN  IF g = ";" \/ b = MAX_ENTITY_LEN
             THEN [entity |-> e, bytes |-> b, next |-> i + 1]
             ELSE ScanEntity(graphemes, i + 1, e, b)

EntityLt == <<"&", "l", "t", ";">>
EntityGt == <<"&", "g", "t", ";">>

\* current_index -= current_entity.len() for the scan sc: the subtraction of a
\* byte length from a grapheme index panics below zero when overflow checks are on
\* and wraps otherwise.
Rewind(v, sc) ==
    IF sc.next - sc.bytes < 0 /\ build = "debug"
    THEN [v EXCEPT !.current_index = sc.next, !.skip_entity = TRUE, !.panicked = TRUE]
    ELSE [v EXCEPT !.current_index = sc.next - sc.bytes, !.skip_entity = TRUE]

\* An entity branch that decodes a known entity only outside tags.
LexEntity_OutsideTags(v, sc) ==
    IF sc.entity = EntityLt
    THEN [v EXCEPT !.current_index = sc.next,
                   !.result = IF v.in_tag THEN @ ELSE Append(@, "<")]
    ELSE IF sc.entity = EntityGt
    THEN [v EXCEPT !.current_index = sc.next,
                   !.result = IF v.in_tag THEN @ ELSE Append(@, ">")]
    ELSE Rewind(v, sc)

\* The entity branch of the loop of lex, for the scan sc.
LexEntity(v, sc) ==
    IF sc.entity = EntityLt
    THEN [v EXCEPT !.current_index = sc.next, !.result = Append(v.result, "<")]
    ELSE IF sc.entity = EntityGt
    THEN [v EXCEPT !.current_index = sc.next, !.result = Append(v.result, ">")]
    ELSE Rewind(v, sc)

\* The rest of an iteration for the grapheme g, skip being skip_entity after the
\* reset.
LexGrapheme(render, v, g, skip) ==
    IF g = "<" /\ render
    THEN [v EXCEPT !.current_index = @ + 1, !.skip_entity = skip, !.in_tag = TRUE]
    ELSE IF g = ">" /\ render
    THEN [v EXCEPT !.current_index = @ + 1, !.skip_entity = skip, !.in_tag = FALSE]
    ELSE [v EXCEPT !.current_index = @ + 1, !.skip_entity = skip,
                   !.result = IF v.in_tag THEN @ ELSE Append(@, g)]

\* One iteration of the outer loop of lex: the loop variables after it, from the
\* loop variables v before it (current_index is 0-based).
LexStep(graphemes, render, v) ==
    IF graphemes[v.current_index + 1] = "&"
    THEN IF v.skip_entity
         THEN LexGrapheme(render, v, "&", FALSE)
         ELSE LexEntity(v, ScanEntity(graphemes, v.current_index + 1, <<"&">>, ByteLen("&")))
    ELSE LexGrapheme(render, v, graphemes[v.current_index + 1], v.skip_entity)

\* The loop variables of lex before the loop.
LexStart ==
    [current_index |-> 0, in_tag |-> FALSE, skip_entity |-> FALSE, result |-> <<>>,
     panicked |-> FALSE]

\* The loop variables that decide every later iteration.
Control(v) == <<v.current_index, v.skip_entity>>

\* The outer loop of lex, entered with the loop variables v: how it ends and the
\* loop variables then. The loop never ends once it starts an iteration with the
\* current_index and skip_entity of an earlier one (before).
RECURSIVE LexLoop(_, _, _, _)
LexLoop(graphemes, render, v, before) ==
    IF v.panicked THEN [end |-> "panic", v |-> v]
    ELSE IF ~UsizeLess(v.current_index, Len(graphemes)) THEN [end |-> "done", v |-> v]
    ELSE IF Control(v) \in before THEN [end |-> "never", v |-> v]
    ELSE LexLoop(graphemes, render, LexStep(graphemes, render, v), before \cup {Control(v)})

\* How lex(body, render) ends.
LexRun(body, render) == LexLoop(body, render, LexStart, {})

\* lex: the String it returns, when it returns.
Lex(body, render) == LexRun(body, render).v.result

\* lex_optional_body!
LexOptionalBody(maybe_body, render) ==
    IF maybe_body.some THEN [some |-> TRUE, v |-> Lex(maybe_body.v, render)]
                       ELSE [some |-> FALSE, v |-> <<>>]

\* How the lex call of lex_optional_body! ends: without a body it is not made.
LexOptionalEnd(maybe_body, render) ==
    IF maybe_body.some THEN LexRun(maybe_body.v, render).end ELSE "done"

\* ---- HtmlParser::parse

Text(text) == [kind |-> "Text", text |-> text]
Tag(tag) == [kind |-> "Tag", text |-> tag]

\* HtmlParser::new followed by the declarations of parse.
ParserStart == [current_buf |-> <<>>, tokens |-> <<>>, unfinished |-> 0, panicked |-> FALSE]

\* HtmlParser::add_text: the text node is added under the last unfinished element;
\* without one the expect panics.
AddText(p, text) ==
    IF p.unfinished = 0 THEN [p EXCEPT !.panicked = TRUE]
    ELSE [p EXCEPT !.tokens = Append(@, Text(text))]

\* HtmlParser::add_tag: a closing tag pops the last unfinished element (not the
\* only one); any other tag pushes one.
AddTag(p, tag) ==
    IF StartsWith(tag, <<"/">>)
    THEN IF p.unfinished = 1 THEN [p EXCEPT !.tokens = Append(@, Tag(tag))]
         ELSE IF p.unfinished = 0 THEN [p EXCEPT !.panicked = TRUE]
         ELSE [p EXCEPT !.tokens = Append(@, Tag(tag)), !.unfinished = @ - 1]
    ELSE [p EXCEPT !.tokens = Append(@, Tag(tag)), !.unfinished = @ + 1]

\* What parse does with current_buf at a "<".
ParseOpen(p) ==
    [(IF p.current_buf # <<>> THEN AddText(p, p.current_buf) ELSE p)
        EXCEPT !.current_buf = <<>>]

\* What parse does with current_buf at a ">".
ParseClose(p) == [AddTag(p, p.current_buf) EXCEPT !.current_buf = <<>>]

\* The entity branch of the loop of parse, for the scan sc.
ParseEntity(p, sc) ==
    IF sc.entity = EntityLt THEN [p EXCEPT !.current_buf = Append(@, "<")]
    ELSE IF sc.entity = EntityGt THEN [p EXCEPT !.current_buf = Append(@, ">")]
    ELSE p

\* The rest of an iteration of parse for the grapheme g.
ParseGrapheme(parse_tags, p, g) ==
    IF g = "<" /\ parse_tags THEN ParseOpen(p)
    ELSE IF g = ">" /\ parse_tags THEN ParseClose(p)
    ELSE [p EXCEPT !.current_buf = Append(@, g)]

\* One iteration of the loop of parse: the loop is the loop of lex (v are the loop
\* variables the two share), with current_buf and the add_text / add_tag calls in
\* the place of result. A parser that panicked does nothing more.
ParseStep(graphemes, parse_tags, v, p) ==
    IF p.panicked THEN p
    ELSE IF graphemes[v.current_index + 1] = "&" /\ ~v.skip_entity
    THEN ParseEntity(p, ScanEntity(graphemes, v.current_index + 1, <<"&">>, ByteLen("&")))
    ELSE ParseGrapheme(parse_tags, p, graphemes[v.current_index + 1])

\* The code of parse after the loop.
ParseEnd(v, p) ==
    IF ~p.panicked /\ ~v.in_tag /\ p.current_buf # <<>> THEN AddText(p, p.current_buf)
    ELSE p

\* ---- the tokenizer, one loop iteration at a time

LexIdle ==
    /\ lexBody = <<>>
    /\ lexRender = FALSE
    /\ lexv = LexStart
    /\ parser = ParserStart
    /\ lexpc = "idle"
    /\ seen = {}

\* The overflow checks of this build.
BuildIs(b) == build = b

\* lex(body, render) and parse(body, render) are called and reach their loop.
LexCall(body, render) ==
    /\ part = "lex"
    /\ lexpc = "idle"
    /\ lexBody' = body
    /\ lexRender' = render
    /\ lexv' = LexStart
    /\ parser' = ParserStart
    /\ lexpc' = "loop"
    /\ seen' = {}
    /\ UNCHANGED <<build, part, respVars, urlVars, headersVars, reqVars, loadVars, cacheVars, engineVars>>

\* The state after an iteration that left the loop variables v.
LexIterated(v) ==
    /\ lexv' = v
    /\ lexpc' = IF v.panicked THEN "panic"
                ELSE IF UsizeLess(v.current_index, Len(lexBody)) /\ Control(v) \in seen'
                THEN "never"
                ELSE "loop"

\* One iteration of the while loop.
LexIterate ==
    /\ part = "lex"
    /\ lexpc = "loop"
    /\ UsizeLess(lexv.current_index, Len(lexBody))
    /\ seen' = seen \cup {Control(lexv)}
    /\ parser' = ParseStep(lexBody, lexRender, lexv, parser)
    /\ LexIterated(LexStep(lexBody, lexRender, lexv))
    /\ UNCHANGED <<build, lexBody, lexRender, part, respVars, urlVars, headersVars, reqVars, loadVars, cacheVars, engineVars>>

\* The loop condition fails: lex returns result, parse makes its last add_text.
LexReturn ==
    /\ part = "lex"
    /\ lexpc = "loop"
    /\ ~UsizeLess(lexv.current_index, Len(lexBody))
    /\ parser' = ParseEnd(lexv, parser)
    /\ lexpc' = "done"
    /\ UNCHANGED <<build, lexBody, lexRender, lexv, seen, part, respVars, urlVars, headersVars, reqVars, loadVars, cacheVars,
                   engineVars>>

\* ---- the server

HttpStr(host, path) == <<"h", "t", "t", "p", ":", "/", "/", host>> \o path

BodyEnd == <<"<", "b", ">", "6">>
BodyAx == <<"a", "&", "x">>
BodyCx == <<"&", "l", "t", ";", "c">>
BodyNotFound == <<"n">>
BodyAe == <<"a", "&", "é">>
BodyE == <<"&", "é">>

Page(sv, body) ==
    [status |-> 200, headers |-> sv.resp.headers, body |-> [some |-> TRUE, v |-> body]]

Moved(location) ==
    [status |-> 301, headers |-> KeyLocation :> <<location>>,
     body |-> [some |-> FALSE, v |-> <<>>]]

NotFound == [status |-> 404, headers |-> <<>>, body |-> [some |-> TRUE, v |-> BodyNotFound]]

ChainNext == [d \in {"0", "1", "2", "3", "4", "5"} |->
                CASE d = "0" -> "1" [] d = "1" -> "2" [] d = "2" -> "3"
                  [] d = "3" -> "4" [] d = "4" -> "5" [] d = "5" -> "6"]

\* What the server at host answers to a request for path. Host a redirects /0 to
\* /1, ..., /5 to /6 and serves /6; it redirects /r to http://c/x and serves its own
\* /x. Host c serves /x, /u and /p. Pages carry the headers of sv.
SiteAnswer(sv, host, path) ==
    IF host = <<"a">> /\ Len(path) = 2 /\ path[1] = "/"
    THEN CASE path[2] \in DOMAIN ChainNext -> Moved(<<"/", ChainNext[path[2]]>>)
           [] path[2] = "6" -> Page(sv, BodyEnd)
           [] path[2] = "r" -> Moved(HttpStr("c", <<"/", "x">>))
           [] path[2] = "x" -> Page(sv, BodyAx)
           [] OTHER -> NotFound
    ELSE IF host = <<"c">> /\ path = <<"/", "x">> THEN Page(sv, BodyCx)
    ELSE IF host = <<"c">> /\ path = <<"/", "u">> THEN Page(sv, BodyAe)
    ELSE IF host = <<"c">> /\ path = <<"/", "p">> THEN Page(sv, BodyE)
    ELSE NotFound

\* The headers the server may put on its pages.
EngineServers ==
    { Vec(<<Date1>>, <<CcAge2>>, TRUE, TRUE, 1, <<"2">>),
      Vec(<<Date3>>, <<CcAge0>>, TRUE, TRUE, 3, <<"0">>),
      Vec(<<Date1>>, <<CcAgeOver>>, TRUE, FALSE, 1, <<>>),
      Vec(<<Date1>>, <<CcNoCache>>, FALSE, FALSE, 0, <<>>) }

\* The arguments of Engine::load.
EngineUrlStrings ==
    {HttpStr("a", <<"/", d>>) : d \in {"0", "1", "5", "6", "r"}}
        \cup { HttpStr("c", <<"/", "x">>),
               HttpStr("c", <<"/", "n">>),
               <<"x">>,
               <<"d", "a", "t", "a", ":", "t", ",", "<", "i", ">", "d">>,
               <<"f", "i", "l", "e", ":", "/", "/", "/", "f">>,
               HttpStr("c", <<"/", "u">>),
               HttpStr("c", <<"/", "p">>),
               SchemeViewSource \o <<":">> \o HttpStr("a", <<"/", "6">>),
               SchemeViewSource \o <<":">> \o HttpStr("a", <<"/", "5">>),
               SchemeViewSource \o <<":">> \o HttpStr("c", <<"/", "x">>),
               SchemeViewSource \o <<":">> \o HttpStr("c", <<"/", "u">>) }

\* What fs::read may return.
FileReads == {[ok |-> FALSE, contents |-> <<>>], [ok |-> TRUE, contents |-> <<"<", "f">>]}

\* ---- requests

\* Request::new(Get, host, true, true) followed by make(url, None) calls: the slot
\* is connected on the first call, to the URL of that call, and every call sends
\* "GET <url.path>" with the Host header seeded by new over that connection.
RequestMake(sv, first, url) == SiteAnswer(sv, first.host, url.path)

\* Request::get: one request of its own to url.
RequestGet(sv, url) == SiteAnswer(sv, url.host, url.path)

\* The while loop of load_web_url and the code after it, with the latest response,
\* num_redirects, and the number of requests made so far.
RECURSIVE RedirectLoop(_, _, _, _, _)
RedirectLoop(sv, url, resp, n, made) ==
    IF ContinueRedirect(resp.status, n)
    THEN LET new_url == RedirectTarget(url, resp) IN
         IF new_url.kind = "Err" THEN [result |-> new_url, nreq |-> made]
         ELSE RedirectLoop(sv, url, RequestMake(sv, url, new_url), n + 1, made + 1)
    ELSE [result |-> AfterLoop(resp), nreq |-> made]

\* load_web_url
LoadWebUrl(sv, url) == RedirectLoop(sv, url, RequestMake(sv, url, url), 0, 1)

\* ---- Engine

\* MaybeCachedResponse::maybe_clone: the response behind the handle, cloned, if the
\* handle upgrades.
MaybeClone(hp, h) == Upgrade(hp, h)

\* A maybe_cache_response that never stores.
MaybeCacheResponse_Skip(c, hp, url, resp) == [ok |-> FALSE, cache |-> c, heap |-> hp]

\* Engine::maybe_cache_response
MaybeCacheResponse(c, hp, url, resp) == CacheInsert(c, hp, url, resp)

\* The two branches of load_or_get_cached, for the cloned cache hit, if any.
CachedOrFresh(cached, sv, url) ==
    IF cached.some
    THEN [kind |-> "Cached", result |-> [kind |-> "Ok", response |-> cached.resp], nreq |-> 0]
    ELSE [kind |-> "Fresh"] @@ LoadWebUrl(sv, url)

\* Engine::load_or_get_cached
LoadOrGetCached(c, hp, t, sv, url) == CachedOrFresh(MaybeClone(hp, CacheGet(c, url, t)), sv, url)

\* The Fresh arm of load_or_maybe_cache: ins is what maybe_cache_response did.
FreshArm(r, ins) ==
    [result |-> r.result, cache |-> ins.cache, heap |-> ins.heap, nreq |-> r.nreq,
     kind |-> "Fresh"]

\* The Fresh arm of a load_or_maybe_cache that returns the error of a failed insert.
FreshArm_Propagate(r, ins) ==
    IF ins.ok THEN FreshArm(r, ins)
    ELSE [result |-> [kind |-> "Err", err |-> "Cache"], cache |-> ins.cache,
          heap |-> ins.heap, nreq |-> r.nreq, kind |-> "Err"]

\* A load_or_maybe_cache that propagates the error of maybe_cache_response.
MatchLoaded_Propagate(c, hp, url, r) ==
    IF r.result.kind = "Err"
    THEN [result |-> r.result, cache |-> c, heap |-> hp, nreq |-> r.nreq, kind |-> "Err"]
    ELSE IF r.kind = "Fresh"
    THEN FreshArm_Propagate(r, MaybeCacheResponse(c, hp, url, r.result.response))
    ELSE [result |-> r.result, cache |-> c, heap |-> hp, nreq |-> 0, kind |-> "Cached"]

\* load_or_maybe_cache once load_or_get_cached returned r.
MatchLoaded(c, hp, url, r) ==
    IF r.result.kind = "Err"
    THEN [result |-> r.result, cache |-> c, heap |-> hp, nreq |-> r.nreq, kind |-> "Err"]
    ELSE IF r.kind = "Fresh"
    THEN FreshArm(r, MaybeCacheResponse(c, hp, url, r.result.response))
    ELSE [result |-> r.result, cache |-> c, heap |-> hp, nreq |-> 0, kind |-> "Cached"]

\* Engine::load_or_maybe_cache
LoadOrMaybeCache(c, hp, t, sv, url) ==
    MatchLoaded(c, hp, url, LoadOrGetCached(c, hp, t, sv, url))

NoBody == [some |-> FALSE, v |-> <<>>]

\* What Engine::load returns and leaves behind: out is the returned value, response
\* the response it was made from.
Loaded(c, hp, ok, out, err, made, kind, resp) ==
    [cache |-> c, heap |-> hp, ok |-> ok, out |-> out, err |-> err, nreq |-> made,
     kind |-> kind, response |-> resp]

\* The end of a load that lexes the body of resp: when lex panics or never returns,
\* the load returns nothing (err says which).
Lexed(c, hp, made, kind, resp, render) ==
    IF LexOptionalEnd(resp.body, render) = "done"
    THEN Loaded(c, hp, TRUE, LexOptionalBody(resp.body, render), "", made, kind, resp)
    ELSE Loaded(c, hp, FALSE, NoBody, LexOptionalEnd(resp.body, render), made, kind, resp)

\* Engine::load_and_parse_body once load_or_maybe_cache returned web.
LoadAndParseBody(web) ==
    IF web.result.kind = "Err"
    THEN Loaded(web.cache, web.heap, FALSE, NoBody, web.result.err, web.nreq, "Err", NoResponse)
    ELSE Lexed(web.cache, web.heap, web.nreq, web.kind, web.result.response, TRUE)

\* The File arm of Engine::load: file is what fs::read returned.
LoadFile(c, hp, file) ==
    IF file.ok THEN Loaded(c, hp, TRUE, [some |-> TRUE, v |-> file.contents], "", 0, "File",
                           NoResponse)
               ELSE Loaded(c, hp, FALSE, NoBody, "Io", 0, "File", NoResponse)

\* The ViewSource arm of Engine::load once Request::get returned src.
LoadViewSource(c, hp, src) == Lexed(c, hp, 1, "ViewSource", src, FALSE)

\* The match of Engine::load on the parsed url.
LoadUrl(c, hp, t, sv, file, url) ==
    CASE url.kind = "Err" -> Loaded(c, hp, FALSE, NoBody, "ParseUrl", 0, "Err", NoResponse)
      [] url.kind = "Web" -> LoadAndParseBody(LoadOrMaybeCache(c, hp, t, sv, url))
      [] url.kind = "File" -> LoadFile(c, hp, file)
      [] url.kind = "Data" ->
           Loaded(c, hp, TRUE, [some |-> TRUE, v |-> url.data], "", 0, "Data", NoResponse)
      [] url.kind = "ViewSource" -> LoadViewSource(c, hp, RequestGet(sv, url))

\* Engine::load(s) with the cache c at time t.
EngineLoadResult(c, hp, t, sv, file, s) == LoadUrl(c, hp, t, sv, file, UrlFromStr(s))

NoLoad == [some |-> FALSE]

\* Engine::default
EngineNew(sv) ==
    /\ server = sv
    /\ lastLoad = NoLoad

\* The engine after a load that returned r.
EngineLoaded(s, r) ==
    /\ Len(r.heap) <= MaxArcs
    /\ cache' = r.cache
    /\ heap' = r.heap
    /\ lastLoad' = [some |-> TRUE, url |-> s, ok |-> r.ok, out |-> r.out, err |-> r.err,
                    nreq |-> r.nreq, kind |-> r.kind, response |-> r.response]

\* The latest call of Engine::load gave control back to its caller: it did not panic
\* in lex and is not in a lex loop that never ends.
Returned == IF lastLoad.some THEN lastLoad.err \notin {"panic", "never"} ELSE TRUE

\* engine.load(s)
EngineLoad(s, file) ==
    /\ part = "engine"
    /\ Returned
    /\ EngineLoaded(s, EngineLoadResult(cache, heap, now, server, file, s))
    /\ UNCHANGED <<now, handle, held, lastIns, lastOp, server, part, respVars, urlVars, headersVars, lexVars, reqVars, loadVars>>

\* -------------------------------------------------------------- Headers

MaxAdds == 3

UpperChars ==
    <<"A", "B", "C", "D", "E", "F", "G", "H", "I", "J", "K", "L", "M",
      "N", "O", "P", "Q", "R", "S", "T", "U", "V", "W", "X", "Y", "Z">>

LowerChars ==
    <<"a", "b", "c", "d", "e", "f", "g", "h", "i", "j", "k", "l", "m",
      "n", "o", "p", "q", "r", "s", "t", "u", "v", "w", "x", "y", "z">>

\* char::to_lowercase of an ASCII character.
LowerChar(c) ==
    IF \E i \in 1..Len(UpperChars) : UpperChars[i] = c
    THEN LowerChars[CHOOSE i \in 1..Len(UpperChars) : UpperChars[i] = c]
    ELSE c

\* str::to_lowercase
ToLowercase(key) == [i \in 1..Len(key) |-> LowerChar(key[i])]

\* The filter_map of add_header_values: the values that are not empty, in order.
NonEmpty(values) == SelectSeq(values, LAMBDA value : value # <<>>)

\* Headers::add_header_values: the map after it.
AddHeaderValues(h, key, values) ==
    IF ToLowercase(key) \in DOMAIN h
    THEN [h EXCEPT ![ToLowercase(key)] = @ \o NonEmpty(values)]
    ELSE h @@ (ToLowercase(key) :> NonEmpty(values))

\* Headers::has_given_value
HasGivenValue(h, key, value) ==
    IF key \in DOMAIN h
    THEN [some |-> TRUE, v |-> \E i \in 1..Len(h[key]) : h[key][i] = value]
    ELSE [some |-> FALSE, v |-> FALSE]

\* Headers::default
HeadersNew ==
    /\ headers = <<>>
    /\ added = <<>>

\* headers.add_header_values(key, values); add(key, value) is the call with one value.
DoAddHeaderValues(key, values) ==
    /\ part = "headers"
    /\ Len(added) < MaxAdds
    /\ headers' = AddHeaderValues(headers, key, values)
    /\ added' = Append(added, [key |-> key, values |-> values])
    /\ UNCHANGED <<part, respVars, urlVars, reqVars, loadVars, cacheVars, engineVars, lexVars>>

\* The header names of the calls and of the lookups.
HeaderNames == {<<"X">>, <<"x">>, <<"C", "l">>, <<"c", "l">>}

\* The value lists of the calls: "", "a", "b" and "A" alone (add), and lists of two.
HeaderValueLists ==
    { <<<<>>>>, <<<<"a">>>>, <<<<"b">>>>, <<<<"A">>>>, <<<<"5">>>>,
      <<<<"a">>, <<"b">>>>, <<<<>>, <<"a">>>>, <<>> }

\* ------------------------------- Url::from_str, Display and with_path

NoInput == [scheme |-> <<>>, sep |-> <<>>, host |-> <<>>, port |-> [text |-> <<>>],
            path |-> <<>>, str |-> <<>>]

UrlIdle ==
    /\ upc = "idle"
    /\ uinput = NoInput
    /\ parsed = NoUrl
    /\ shown = <<>>
    /\ reparsed = NoUrl
    /\ repathed = NoUrl

\* url.parse::<Url>() for the string of the input u.
UrlParse(u) ==
    /\ part = "url"
    /\ upc = "idle"
    /\ uinput' = u
    /\ parsed' = UrlFromStr(u.str)
    /\ upc' = "parsed"
    /\ UNCHANGED <<shown, reparsed, repathed, part, respVars, reqVars, loadVars, cacheVars, engineVars,
                   lexVars, headersVars>>

\* web_url.to_string().parse::<Url>() and web_url.with_path(&web_url.path) for the
\* Web URL just parsed.
UrlShow ==
    /\ part = "url"
    /\ upc = "parsed"
    /\ parsed.kind = "Web"
    /\ shown' = WebUrlDisplay(parsed)
    /\ reparsed' = UrlFromStr(WebUrlDisplay(parsed))
    /\ repathed' = WithPath(parsed, parsed.path)
    /\ upc' = "shown"
    /\ UNCHANGED <<uinput, parsed, part, respVars, reqVars, loadVars, cacheVars, engineVars, lexVars,
                   headersVars>>

\* --------------------------------- Response::from_stream and from_str

CR == "\r"

LF == "\n"

CRLF == <<CR, LF>>

\* char::is_whitespace on the characters of the model's inputs.
Whitespace == {" ", "\t", CR, LF}

RECURSIVE TrimStart(_)
TrimStart(s) == IF s # <<>> /\ Head(s) \in Whitespace THEN TrimStart(Tail(s)) ELSE s

RECURSIVE TrimEnd(_)
TrimEnd(s) ==
    IF s # <<>> /\ s[Len(s)] \in Whitespace THEN TrimEnd(SubSeq(s, 1, Len(s) - 1)) ELSE s

\* str::trim
Trim(s) == TrimEnd(TrimStart(s))

\* str::parse::<usize>: as parse::<u16>, with the range of usize, which no string of
\* the model's inputs reaches.
ParseUsize(s) ==
    LET body == IF s # <<>> /\ Head(s) = "+" THEN Tail(s) ELSE s
        v == ParseDigits(body, 0, 2147483647)
    IN  IF s = <<>> \/ body = <<>> \/ v < 0 THEN [ok |-> FALSE, v |-> 0]
                                            ELSE [ok |-> TRUE, v |-> v]

ContentLength == <<"c", "o", "n", "t", "e", "n", "t", "-", "l", "e", "n", "g", "t", "h">>

TransferEncoding == <<"t", "r", "a", "n", "s", "f", "e", "r", "-", "e", "n", "c", "o", "d", "i", "n", "g">>

ContentEncoding == <<"c", "o", "n", "t", "e", "n", "t", "-", "e", "n", "c", "o", "d", "i", "n", "g">>

\* HashMap<String, String>::insert: the value of an existing key is replaced.
HashMapInsert(h, k, v) == [x \in (DOMAIN h) \cup {k} |-> IF x = k THEN v ELSE h[x]]

\* BufRead::read_line at pos bytes into the stream: the bytes up to and including the
\* next newline; at the end of a closed stream what is left (nothing: Ok(0)); on a
\* stream the peer keeps open, with no newline to come, it does not return.
ReadLineOf(rest, open) ==
    IF IndexOf(rest, LF) > 0 THEN [end |-> "line", line |-> SubSeq(rest, 1, IndexOf(rest, LF))]
    ELSE IF open THEN [end |-> "blocked", line |-> <<>>]
    ELSE [end |-> "eof", line |-> rest]

ReadLine(bytes, pos, open) == ReadLineOf(SubSeq(bytes, pos + 1, Len(bytes)), open)

\* The outcomes of parsing a response.
NoResponseBody == [some |-> FALSE, v |-> <<>>]

Failed(end, err) ==
    [end |-> end, err |-> err, status_code |-> 0, headers |-> <<>>, body |-> NoResponseBody]

Parsed(status_code, response_headers, body) ==
    [end |-> "ok", err |-> "", status_code |-> status_code, headers |-> response_headers,
     body |-> body]

\* StatusLine::from_str: splitn(3, ' ') and the u16 status code.
StatusLineParts(a, b) ==
    IF ~a.some THEN [ok |-> FALSE, err |-> "InvalidStatusLine", status_code |-> 0]
    ELSE IF ~b.some THEN [ok |-> FALSE, err |-> "InvalidStatusLine", status_code |-> 0]
    ELSE IF ~ParseU16(b.left).ok THEN [ok |-> FALSE, err |-> "InvalidStatusCode", status_code |-> 0]
    ELSE [ok |-> TRUE, err |-> "", status_code |-> ParseU16(b.left).v]

StatusLineFromStr(s) ==
    StatusLineParts(SplitOnce(s, " "), SplitOnce(SplitOnce(s, " ").right, " "))

\* The body loop of from_stream: whole lines are read into body_buf until bytes_read
\* reaches content_length or read_line returns 0.
RECURSIVE StreamBody(_, _, _, _, _, _)
StreamBodyLine(bytes, pos, open, body_buf, bytes_read, content_length, r) ==
    IF r.end = "blocked" THEN [end |-> "blocked", body |-> body_buf]
    ELSE IF Len(r.line) = 0 THEN [end |-> "ok", body |-> body_buf]
    ELSE StreamBody(bytes, pos + Len(r.line), open, body_buf \o r.line,
                    bytes_read + Len(r.line), content_length)

StreamBody(bytes, pos, open, body_buf, bytes_read, content_length) ==
    IF bytes_read < content_length
    THEN StreamBodyLine(bytes, pos, open, body_buf, bytes_read, content_length,
                        ReadLine(bytes, pos, open))
    ELSE [end |-> "ok", body |-> body_buf]

\* from_stream after the header loop: content_length and the body.
StreamAfterBody(status_code, response_headers, b) ==
    IF b.end = "blocked" THEN Failed("blocked", "")
    ELSE Parsed(status_code, response_headers,
                IF b.body = <<>> THEN NoResponseBody ELSE [some |-> TRUE, v |-> b.body])

StreamAfterHeaders(bytes, pos, open, status_code, response_headers) ==
    IF ContentLength \in DOMAIN response_headers
    THEN IF ParseUsize(response_headers[ContentLength]).ok
         THEN StreamAfterBody(status_code, response_headers,
                  StreamBody(bytes, pos, open, <<>>, 0,
                             ParseUsize(response_headers[ContentLength]).v))
         ELSE Failed("err", "ParseInt")
    ELSE StreamAfterBody(status_code, response_headers,
                         StreamBody(bytes, pos, open, <<>>, 0, 0))

\* The header loop of from_stream, from pos bytes into the stream.
RECURSIVE StreamHeaders(_, _, _, _, _)
StreamHeaderLine(bytes, pos, open, status_code, response_headers, r) ==
    IF r.end = "blocked" THEN Failed("blocked", "")
    ELSE IF r.line = CRLF
    THEN StreamAfterHeaders(bytes, pos + Len(r.line), open, status_code, response_headers)
    ELSE IF ~SplitOnce(r.line, ":").some THEN Failed("err", "Headers")
    ELSE StreamHeaders(bytes, pos + Len(r.line), open, status_code,
                       HashMapInsert(response_headers, ToLowercase(SplitOnce(r.line, ":").left),
                                     Trim(SplitOnce(r.line, ":").right)))

StreamHeaders(bytes, pos, open, status_code, response_headers) ==
    StreamHeaderLine(bytes, pos, open, status_code, response_headers,
                     ReadLine(bytes, pos, open))

\* Response::from_stream
FromStreamStatus(bytes, open, r, st) ==
    IF r.end = "blocked" THEN Failed("blocked", "")
    ELSE IF ~st.ok THEN Failed("err", st.err)
    ELSE StreamHeaders(bytes, Len(r.line), open, st.status_code, <<>>)

FromStream(bytes, open) ==
    FromStreamStatus(bytes, open, ReadLine(bytes, 0, open),
                     StatusLineFromStr(ReadLine(bytes, 0, open).line))

\* str::lines: the text is split after each "\n"; a line loses its "\n" and a "\r"
\* before it.
StripCR(l) == IF l # <<>> /\ l[Len(l)] = CR THEN SubSeq(l, 1, Len(l) - 1) ELSE l

RECURSIVE Lines(_)
Lines(s) ==
    IF s = <<>> THEN <<>>
    ELSE IF IndexOf(s, LF) = 0 THEN <<s>>
    ELSE <<StripCR(SubSeq(s, 1, IndexOf(s, LF) - 1))>> \o Lines(SubSeq(s, IndexOf(s, LF) + 1, Len(s)))

\* The map_while of from_str over the lines from the i-th on: the headers collected
\* and the index of the first line left to the body. The line that ends the
\* map_while has been taken from the iterator.
RECURSIVE StrHeaders(_, _, _)
StrHeaders(lines, i, response_headers) ==
    IF i > Len(lines) THEN [headers |-> response_headers, next |-> i]
    ELSE IF ~SplitOnce(lines[i], ":").some THEN [headers |-> response_headers, next |-> i + 1]
    ELSE StrHeaders(lines, i + 1,
                    HashMapInsert(response_headers, ToLowercase(SplitOnce(lines[i], ":").left),
                                  SplitOnce(lines[i], ":").right))

\* The body loop of from_str: each line left, with "\n" after it.
RECURSIVE StrBody(_, _)
StrBody(lines, i) ==
    IF i > Len(lines) THEN <<>> ELSE lines[i] \o <<LF>> \o StrBody(lines, i + 1)

\* Response::from_str
FromStrHeaders(lines, st, h) ==
    IF ~st.ok THEN Failed("err", st.err)
    ELSE IF TransferEncoding \in DOMAIN h.headers \/ ContentEncoding \in DOMAIN h.headers
    THEN Failed("panic", "")
    ELSE Parsed(st.status_code, h.headers, [some |-> TRUE, v |-> StrBody(lines, h.next)])

FromStrLines(lines) ==
    IF lines = <<>> THEN Failed("err", "MissingStatusLine")
    ELSE FromStrHeaders(lines, StatusLineFromStr(lines[1]), StrHeaders(lines, 2, <<>>))

FromStr(s) == FromStrLines(Lines(s))

\* The end of Request::make, once the request is written: from_stream on a keep-alive
\* Request; else read_to_string, which returns when the peer closes, and from_str.
ReadResponse(keep, bytes, open) ==
    IF keep THEN FromStream(bytes, open)
    ELSE IF open THEN Failed("blocked", "")
    ELSE FromStr(bytes)

NoWire == [status_line |-> <<>>, lines |-> <<>>, body |-> <<>>, chunks |-> <<>>,
           open |-> FALSE, keep |-> FALSE, bytes |-> <<>>]

ResponseIdle ==
    /\ wire = NoWire
    /\ rsp = [some |-> FALSE]

\* One Request::make whose request is answered by the bytes of w.
ResponseRead(w) ==
    /\ part = "response"
    /\ ~rsp.some
    /\ wire' = w
    /\ rsp' = [some |-> TRUE, r |-> ReadResponse(w.keep, w.bytes, w.open)]
    /\ UNCHANGED <<part, reqVars, loadVars, cacheVars, engineVars, lexVars, headersVars, urlVars>>

\* ------------------------------------------------------ specifications

InitRequest ==
    /\ part = "request"
    /\ \E ka \in BOOLEAN : RequestNew(ka)
    /\ LoadIdle
    /\ CacheNew
    /\ EngineNew(NoVec)
    /\ BuildIs("release")
    /\ LexIdle
    /\ HeadersNew
    /\ UrlIdle
    /\ ResponseIdle

NextRequest == MakeCall

SpecRequest == InitRequest /\ [][NextRequest]_vars

InitLoad ==
    /\ part = "redirect"
    /\ RequestNew(TRUE)
    /\ LoadIdle
    /\ CacheNew
    /\ EngineNew(NoVec)
    /\ BuildIs("release")
    /\ LexIdle
    /\ HeadersNew
    /\ UrlIdle
    /\ ResponseIdle

LoadStartAny ==
    \E s \in StartUrlStrings, ok \in BOOLEAN, resp \in ServerResponses :
        LoadStart(UrlFromStr(s), ok, resp)

LoadLoopAny == \E ok \in BOOLEAN, resp \in ServerResponses : LoadLoop(ok, resp)

NextLoad == LoadStartAny \/ LoadLoopAny

SpecLoad == InitLoad /\ [][NextLoad]_vars

InitCache ==
    /\ part = "cache"
    /\ RequestNew(TRUE)
    /\ LoadIdle
    /\ CacheNew
    /\ EngineNew(NoVec)
    /\ BuildIs("release")
    /\ LexIdle
    /\ HeadersNew
    /\ UrlIdle
    /\ ResponseIdle

InsertAny == \E u \in CacheUrls, v \in CacheVectors : DoInsert(u, v)

RemoveAny == \E u \in CacheUrls : DoRemove(u)

GetAny == \E u \in CacheUrls : DoGet(u)

DropAny == \E a \in held : DoDrop(a)

\* The operations the program performs on a cache: remove is private and has no
\* caller.
NextCache == InsertAny \/ GetAny \/ DoUpgrade \/ DropAny \/ Tick

SpecCache == InitCache /\ [][NextCache]_vars

\* The same with remove.
NextCacheRemove == InsertAny \/ RemoveAny \/ GetAny \/ DoUpgrade \/ DropAny \/ Tick

SpecCacheRemove == InitCache /\ [][NextCacheRemove]_vars

InitEngine ==
    /\ part = "engine"
    /\ RequestNew(TRUE)
    /\ LoadIdle
    /\ CacheNew
    /\ \E sv \in EngineServers : EngineNew(sv)
    /\ \E b \in Builds : BuildIs(b)
    /\ LexIdle
    /\ HeadersNew
    /\ UrlIdle
    /\ ResponseIdle

EngineLoadAny == \E s \in EngineUrlStrings, file \in FileReads : EngineLoad(s, file)

NextEngine == EngineLoadAny \/ Tick

SpecEngine == InitEngine /\ [][NextEngine]_vars

\* A cache of its own, or the cache of an Engine, which only Engine::load reaches.
InitCacheOrEngine == InitCache \/ InitEngine

NextCacheOrEngine == InsertAny \/ GetAny \/ DoUpgrade \/ DropAny \/ Tick \/ EngineLoadAny

SpecCacheOrEngine == InitCacheOrEngine /\ [][NextCacheOrEngine]_vars

InitHeaders ==
    /\ part = "headers"
    /\ RequestNew(TRUE)
    /\ LoadIdle
    /\ CacheNew
    /\ EngineNew(NoVec)
    /\ BuildIs("release")
    /\ LexIdle
    /\ HeadersNew
    /\ UrlIdle
    /\ ResponseIdle

AddAny == \E key \in HeaderNames, values \in HeaderValueLists : DoAddHeaderValues(key, values)

NextHeaders == AddAny

SpecHeaders == InitHeaders /\ [][NextHeaders]_vars

\* The parts url strings are written from.
UrlSchemes == {SchemeHttp, SchemeHttps, SchemeFile, <<"f", "t", "p">>}

UrlSeps == {<<":", "/", "/">>, <<":">>, <<":", "/">>}

UrlHosts == {<<"h">>, <<"a", ".", "b">>, <<>>}

\* An explicit port: its text after the host, whether the text after the ":" is a
\* u16, and its value then.
Port(text, valid, value) == [text |-> text, explicit |-> TRUE, valid |-> valid, value |-> value]

NoPort == [text |-> <<>>, explicit |-> FALSE, valid |-> FALSE, value |-> 0]

UrlPorts ==
    { NoPort,
      Port(<<":", "8", "0">>, TRUE, 80),
      Port(<<":", "8", "0", "0", "0">>, TRUE, 8000),
      Port(<<":", "0">>, TRUE, 0),
      Port(<<":", "+", "7">>, TRUE, 7),
      Port(<<":", "6", "5", "5", "3", "5">>, TRUE, 65535),
      Port(<<":", "6", "5", "5", "3", "6">>, FALSE, 0),
      Port(<<":">>, FALSE, 0),
      Port(<<":", "x">>, FALSE, 0),
      Port(<<":", "-", "1">>, FALSE, 0),
      Port(<<":", "8", ":", "9">>, FALSE, 0) }

UrlPaths == {<<>>, <<"/">>, <<"/", "p">>, <<"/", "p", "/", "q">>, <<"/", "/">>, <<"/", "p", ":", "1">>}

\* The string written from the parts.
UrlInput(scheme, sep, host, port, path) ==
    [scheme |-> scheme, sep |-> sep, host |-> host, port |-> port, path |-> path,
     str |-> scheme \o sep \o host \o port.text \o path]

\* The strings from_str is called with: every combination of the parts that can be
\* read back in one way only (a separator other than "://" is followed by a host).
UrlInputs ==
    { u \in { UrlInput(scheme, sep, host, port, path) :
                scheme \in UrlSchemes, sep \in UrlSeps, host \in UrlHosts,
                port \in UrlPorts, path \in UrlPaths } :
        u.sep # <<":", "/", "/">> => u.host # <<>> }

InitUrl ==
    /\ part = "url"
    /\ RequestNew(TRUE)
    /\ LoadIdle
    /\ CacheNew
    /\ EngineNew(NoVec)
    /\ BuildIs("release")
    /\ LexIdle
    /\ HeadersNew
    /\ UrlIdle
    /\ ResponseIdle

UrlParseAny == \E u \in UrlInputs : UrlParse(u)

NextUrl == UrlParseAny \/ UrlShow

SpecUrl == InitUrl /\ [][NextUrl]_vars

MaxBody == 4

Graphemes == {"&", ";", "a", "é", "€"}

RECURSIVE Strings(_, _)
\* The strings of at most n graphemes of the set alphabet.
Strings(alphabet, n) ==
    IF n = 0 THEN {<<>>}
    ELSE LET shorter == Strings(alphabet, n - 1)
         IN  shorter \cup {Append(b, g) : b \in shorter, g \in alphabet}

Repeat(g, n) == [i \in 1..n |-> g]

\* "&" and graphemes after it that reach MAX_ENTITY_LEN bytes exactly (one-byte
\* graphemes) or step over it (a two-byte grapheme from MAX_ENTITY_LEN - 1 bytes).
EntityToCap == <<"&">> \o Repeat("a", MAX_ENTITY_LEN - 1) \o <<"b", ";">>

EntityOverCap == <<"&">> \o Repeat("a", MAX_ENTITY_LEN - 2) \o <<"é", "a", "b", ";", "c">>

\* The bodies lex is called with: every short string of Graphemes, and strings with
\* the two known entities, tags and longer unknown entities.
LexBodies ==
    Strings(Graphemes, MaxBody)
        \cup {EntityToCap, EntityOverCap}
        \cup { <<"<", "&", "a", ";", ">", "x">>,
               <<"<", "a", "&", "l", "t", ";", "&", "é", ";", "b", ">", "c">> }
        \cup { <<"&", "l", "t", ";", "d", "&", "g", "t", ";">>,
               <<"&", "p", "o", ";", "d", "&", "c", "h", ";">>,
               <<"<", "b", ">", "H", "i", "<", "/", "b", ">">>,
               <<"a", "<", "b", ">", "&", "l", "t", ";", "<", "i">>,
               <<"<", "&", "g", "t", ";", ">", "x">>,
               <<"&", "é", ";", "&", "l", "t", ";">>,
               <<"a", "a", "&", "é", ";", "&", "l", "t", ";">>,
               <<"&", "l", "t">>,
               <<">", "a", "<">> }

InitLex ==
    /\ part = "lex"
    /\ RequestNew(TRUE)
    /\ LoadIdle
    /\ CacheNew
    /\ EngineNew(NoVec)
    /\ \E b \in Builds : BuildIs(b)
    /\ LexIdle
    /\ HeadersNew
    /\ UrlIdle
    /\ ResponseIdle

LexCallAny == \E body \in LexBodies, render \in BOOLEAN : LexCall(body, render)

NextLex == LexCallAny \/ LexIterate \/ LexReturn

SpecLex == InitLex /\ [][NextLex]_vars

\* The responses a server writes: a status line, header lines, and the bytes after
\* the blank line; chunks are the payloads when the body is written chunked.
StatusLines == {<<"H", " ", "2", "0", "0", " ", "K">>, <<"H", " ", "x", " ", "K">>, <<"H">>}

HeaderLines ==
    {<<"C", "o", "n", "t", "e", "n", "t", "-", "L", "e", "n", "g", "t", "h", ":", " ", "2">>,
     <<"c", "o", "n", "t", "e", "n", "t", "-", "l", "e", "n", "g", "t", "h", ":", "0">>,
     <<"X", ":", " ", "a", ",", " ", "b">>,
     <<"x", ":", " ", "c">>,
     <<"T", "r", "a", "n", "s", "f", "e", "r", "-", "E", "n", "c", "o", "d", "i", "n", "g", ":", " ", "c", "h", "u", "n", "k", "e", "d">>,
     <<"b", "a", "d">>,
     <<"C", "o", "n", "t", "e", "n", "t", "-", "L", "e", "n", "g", "t", "h", ":", " ", "3">>}

HeaderLineLists ==
    {<<>>} \cup {<<l>> : l \in HeaderLines} \cup {<<l, m>> : l, m \in HeaderLines}

RECURSIVE Concat(_)
Concat(ss) == IF ss = <<>> THEN <<>> ELSE Head(ss) \o Concat(Tail(ss))

\* A chunk on the wire: the hex length line, the payload, CRLF.
HexDigits == <<"0", "1", "2", "3", "4", "5", "6", "7", "8", "9", "a", "b", "c", "d", "e", "f">>

ChunkOf(payload) == <<HexDigits[Len(payload) + 1]>> \o CRLF \o payload \o CRLF

ChunkedBody(chunks) ==
    Concat([i \in 1..Len(chunks) |-> ChunkOf(chunks[i])]) \o ChunkOf(<<>>)

PlainBodies == {<<>>, <<"a", "b">>, <<"a", "b", "c">>, <<"a", "b", "\n">>, <<"a", "\n", "b">>, <<"a", "b", "c", "\n", "d">>}

ChunkLists == {<<<<"a", "b">>, <<"c">>>>, <<<<"a", "b">>>>}

WireBodies ==
    {[body |-> b, chunks |-> <<>>] : b \in PlainBodies}
        \cup {[body |-> ChunkedBody(c), chunks |-> c] : c \in ChunkLists}

WireBytes(status_line, lines, body) ==
    status_line \o CRLF \o Concat([i \in 1..Len(lines) |-> lines[i] \o CRLF]) \o CRLF \o body

Wires ==
    {[status_line |-> s, lines |-> ls, body |-> b.body, chunks |-> b.chunks, open |-> o,
      keep |-> k, bytes |-> WireBytes(s, ls, b.body)] :
        s \in StatusLines, ls \in HeaderLineLists, b \in WireBodies, o \in BOOLEAN,
        k \in BOOLEAN}

InitResponse ==
    /\ part = "response"
    /\ RequestNew(TRUE)
    /\ LoadIdle
    /\ CacheNew
    /\ EngineNew(NoVec)
    /\ BuildIs("release")
    /\ LexIdle
    /\ HeadersNew
    /\ UrlIdle
    /\ ResponseIdle

ResponseReadAny == \E w \in Wires : ResponseRead(w)

NextResponse == ResponseReadAny

SpecResponse == InitResponse /\ [][NextResponse]_vars

\* --------------------------------------------------------------- claims

C2_NoReuseAfterError == ~reusedAfterError

\* A 3xx response without a usable Location: no header, or a header with no value.
LacksLocation(resp) ==
    LET loc == HeadersGet(resp.headers, KeyLocation) IN ~loc.some \/ loc.values = <<>>

RedirectErrors ==
    { "Redirect: Missing Location header", "Redirect: Missing Location value",
      "Redirect: Too many redirects." }

\* C3: one load issues at most 6 requests; when the 6th response is still a 3xx the
\* load fails with Redirect("Too many redirects."); a response that is not a 3xx
\* ends the load and is the one returned (every response before it was a 3xx).
C3_RedirectCap ==
    /\ nreq <= 6
    /\ nresp >= 1 => num_redirects = nresp - 1
    /\ (lpc = "done" /\ nresp = 6 /\ IsRedirect(response.status)) =>
           lresult = [kind |-> "Err", err |-> "Redirect: Too many redirects."]
    /\ (lpc = "done" /\ nresp >= 1 /\ ~IsRedirect(response.status)) =>
           lresult = [kind |-> "Ok", response |-> response]
    /\ (lpc = "loop" /\ ~IsRedirect(response.status)) => nreq = nresp
    /\ lresult.kind = "Ok" => /\ lresult.response = response
                              /\ ~IsRedirect(response.status)
                              /\ nreq = nresp

\* C3 witness: six requests were answered with a 3xx and the load failed with the
\* cap's error.
C3_Witness ==
    /\ lpc = "done"
    /\ nreq = 6
    /\ nresp = 6
    /\ lresult = [kind |-> "Err", err |-> "Redirect: Too many redirects."]

\* C5 (as stated): the request that follows a 3xx targets the URL that was just
\* requested with only its path replaced when the Location starts with '/', and
\* the parsed Location otherwise.
C5_TargetFromCurrentUrl ==
    /\ hop.some =>
          target = IF StartsWith(hop.loc, <<"/">>) THEN WithPath(hop.from, hop.loc)
                                                   ELSE UrlFromStr(hop.loc)
    /\ (lpc = "done" /\ lresult = [kind |-> "Err", err |-> "NotWebUrl"]) => nreq = nresp

\* C6: a 3xx response without a Location header, or with a Location header that
\* has no value, is the last response of the load (no request follows it), the load
\* fails with a Redirect error, and a 3xx response is never the result.
C6_MissingLocation ==
    /\ (nresp >= 1 /\ IsRedirect(response.status) /\ LacksLocation(response)) =>
           /\ nreq = nresp
           /\ lpc = "done" => (lresult.kind = "Err" /\ lresult.err \in RedirectErrors)
    /\ lresult.kind = "Ok" => ~IsRedirect(lresult.response.status)

\* C6 witness: the third response was a 3xx without a Location header and the load
\* failed with the Redirect error for it.
C6_Witness ==
    /\ lpc = "done"
    /\ nresp = 3
    /\ nreq = 3
    /\ IsRedirect(response.status)
    /\ KeyLocation \notin DOMAIN response.headers
    /\ lresult = [kind |-> "Err", err |-> "Redirect: Missing Location header"]

\* The handle get(u) returns now is live: it holds a weak reference that upgrades.
LiveNow(u) == Upgrade(heap, CacheGet(cache, u, now)).some

\* C7: after a successful insert(u, r) with Date d and max-age=N, and until the next
\* one, get(u) returns a live handle exactly while now - d < N and a miss at every
\* time with now - d >= N; a URL never inserted is a miss.
C7_Freshness ==
    \A u \in CacheUrls :
        IF lastIns[u].some THEN LiveNow(u) <=> DeltaLess(now - lastIns[u].d, lastIns[u].n)
                           ELSE ~CacheGet(cache, u, now).some

\* C7 witness: an entry with Date 1 and max-age=2 was served (the caller still has
\* the handle), and at time 3 get returns a miss for it.
C7_Witness ==
    \E u \in CacheUrls :
        /\ lastIns[u] = [some |-> TRUE, d |-> 1, n |-> <<"2">>]
        /\ now = 3
        /\ ~CacheGet(cache, u, now).some
        /\ handle.some
        /\ handle.arc = cache[u].arc

\* What a successful insert(url, v.resp) leaves in the cache.
Stored(c, hp, url, v) ==
    /\ url \in DOMAIN c
    /\ hp[c[url].arc].resp = v.resp
    /\ c[url].date = v.d
    /\ c[url].max_age = v.n

\* C8 (as stated): insert fails and leaves the map unchanged when the response lacks
\* a single parseable Date, lacks a single Cache-Control, or its Cache-Control is not
\* max-age=<non-negative integer>; in every other case it succeeds and the entry
\* holds the response with that date and max-age.
C8_InsertWellFormed ==
    [][lastOp'.kind = "insert" =>
          IF lastOp'.v.wellFormed
          THEN lastOp'.ok /\ Stored(cache', heap', lastOp'.url, lastOp'.v)
          ELSE ~lastOp'.ok /\ cache' = cache /\ heap' = heap]_vars

\* C8 (amended): as C8, with the integer of max-age also required to fit a signed
\* duration (at most 9223372036854775 seconds): insert fails and changes nothing for
\* a larger one.
C8_InsertWellFormedAndFits ==
    [][lastOp'.kind = "insert" =>
          IF lastOp'.v.wellFormed /\ lastOp'.v.fits
          THEN lastOp'.ok /\ Stored(cache', heap', lastOp'.url, lastOp'.v)
          ELSE ~lastOp'.ok /\ cache' = cache /\ heap' = heap]_vars

\* C8 witness: an insert of a response with max-age=9223372036854776 has just failed
\* and the earlier entry of that URL is still in the map.
C8_Witness ==
    /\ lastOp.kind = "insert"
    /\ ~lastOp.ok
    /\ lastOp.v = Vec(<<Date1>>, <<CcAgeOver>>, TRUE, FALSE, 1, <<>>)
    /\ lastOp.url \in DOMAIN cache
    /\ lastIns[lastOp.url].some

\* The map holds the entry that allocation a was made for.
InMap(a) == \E u \in DOMAIN cache : cache[u].arc = a

\* C9: the map holds the only long-lived strong reference to a cached response: a
\* handle from get upgrades to the response while the map holds that entry, and
\* once the entry was removed or replaced, and the caller holds no upgraded strong
\* reference, the same handle upgrades to None.
C9_WeakHandle ==
    /\ \A a \in 1..Len(heap) :
          heap[a].strong = (IF InMap(a) THEN 1 ELSE 0) + (IF a \in held THEN 1 ELSE 0)
    /\ handle.some =>
          /\ InMap(handle.arc) =>
                Upgrade(heap, handle) = [some |-> TRUE, resp |-> heap[handle.arc].resp]
          /\ (~InMap(handle.arc) /\ handle.arc \notin held) => ~Upgrade(heap, handle).some

\* C9 witness: the caller's handle no longer upgrades, its entry having just been
\* replaced by an insert for the same URL.
C9_Witness ==
    /\ handle.some
    /\ ~Upgrade(heap, handle).some
    /\ lastOp.kind = "insert"
    /\ lastOp.ok
    /\ cache[lastOp.url].arc = handle.arc + 1

\* The server answers the Web URL of string a with a 3xx whose Location leads to
\* the Web URL of string b.
Leads(a, b) ==
    LET A == UrlFromStr(a)
        B == UrlFromStr(b)
    IN  /\ A.kind = "Web"
        /\ B.kind = "Web"
        /\ IsRedirect(SiteAnswer(server, A.host, A.path).status)
        /\ RedirectTarget(A, SiteAnswer(server, A.host, A.path)) = B

\* C4: redirect idempotence: when the server answers A with a 3xx whose Location
\* (relative or absolute) leads to B, engine.load(A) returns the same body as the
\* engine.load(B) before it on the same engine, whatever was loaded earlier.
C4_RedirectIdempotence ==
    [][(lastLoad.some /\ lastLoad'.some /\ Leads(lastLoad'.url, lastLoad.url) /\ lastLoad.ok)
          => (lastLoad'.ok /\ lastLoad'.out = lastLoad.out)]_vars

\* The Date and max-age the response of load l carries: those of the server's pages.
Carried(l) ==
    IF l.kind \in {"Fresh", "Cached"} /\ l.response.headers = server.resp.headers
    THEN [resp |-> l.response, wellFormed |-> server.wellFormed, fits |-> server.fits,
          d |-> server.d, n |-> server.n]
    ELSE NoVec

\* C10 (as stated): after engine.load(u) fetched a response with a parseable Date
\* and Cache-Control: max-age=N, the cache has an entry for u; a following
\* engine.load(u) while now - Date < N issues no request and returns the same result.
C10_SecondLoadFromCache ==
    [][(lastLoad'.some /\ lastLoad' # lastLoad) =>
          /\ (lastLoad'.kind = "Fresh" /\ Carried(lastLoad').wellFormed)
                => Stored(cache', heap', UrlFromStr(lastLoad'.url), Carried(lastLoad'))
          /\ (/\ lastLoad.some
              /\ Carried(lastLoad).wellFormed
              /\ lastLoad'.url = lastLoad.url
              /\ DeltaLess(now - Carried(lastLoad).d, Carried(lastLoad).n))
                => (lastLoad'.nreq = 0 /\ lastLoad'.ok /\ lastLoad'.out = lastLoad.out)]_vars

\* C10 (amended): as C10, for N at most 9223372036854775, the largest max-age that
\* insert accepts.
C10_SecondLoadFromCacheFits ==
    [][(lastLoad'.some /\ lastLoad' # lastLoad) =>
          /\ (/\ lastLoad'.kind = "Fresh"
              /\ Carried(lastLoad').wellFormed
              /\ Carried(lastLoad').fits)
                => Stored(cache', heap', UrlFromStr(lastLoad'.url), Carried(lastLoad'))
          /\ (/\ lastLoad.some
              /\ Carried(lastLoad).wellFormed
              /\ Carried(lastLoad).fits
              /\ lastLoad'.url = lastLoad.url
              /\ DeltaLess(now - Carried(lastLoad).d, Carried(lastLoad).n))
                => (lastLoad'.nreq = 0 /\ lastLoad'.ok /\ lastLoad'.out = lastLoad.out)]_vars

\* C10 witness: a load was just served from the cache, without a request, with the
\* body of the entry an earlier load of the same URL stored.
C10_Witness ==
    /\ lastLoad.some
    /\ lastLoad.kind = "Cached"
    /\ lastLoad.nreq = 0
    /\ Carried(lastLoad).wellFormed
    /\ UrlFromStr(lastLoad.url) \in DOMAIN cache
    /\ lastLoad.out = LexOptionalBody(heap[cache[UrlFromStr(lastLoad.url)].arc].resp.body, TRUE)

\* The response load_web_url gets for the Web URL of string s.
Fetched(s) == LoadWebUrl(server, UrlFromStr(s)).result

\* cache.insert fails for resp: it lacks the headers, or they are those of the
\* server's pages and are not well formed or do not fit.
InsertFails(resp) ==
    \/ resp.headers = <<>>
    \/ /\ resp.headers = server.resp.headers
       /\ ~(server.wellFormed /\ server.fits)

C12_ParseFailureIsBlank ==
    (lastLoad.some /\ UrlFromStr(lastLoad.url).kind = "Err") =>
        /\ lastLoad.ok
        /\ lastLoad.out = [some |-> TRUE, v |-> <<>>]

\* C13 (as stated): the tokenizer terminates on every input: its loop never starts
\* an iteration with the cursor and skip flag of an earlier iteration (from there
\* it would repeat the iterations in between for ever and its output would grow
\* without bound).
C13_Terminates == lexpc # "never"

\* The grapheme g occurs in s.
Has(s, g) == \E i \in 1..Len(s) : s[i] = g

\* The string sub occurs in s.
Occurs(s, sub) == \E i \in 1..Len(s) : StartsWith(SubSeq(s, i, Len(s)), sub)

\* C14 (as stated): for an input without "<" and ">" and without an occurrence of
\* "&lt;" or "&gt;", the tokenizer returns the input as the text: every grapheme
\* once and in order.
C14_UnknownEntitiesLiteral ==
    (/\ lexpc = "done"
     /\ ~Has(lexBody, "<")
     /\ ~Has(lexBody, ">")
     /\ ~Occurs(lexBody, EntityLt)
     /\ ~Occurs(lexBody, EntityGt))
        => lexv.result = lexBody

RECURSIVE SubstEntities(_)
\* s with every occurrence of "&lt;" replaced by "<" and of "&gt;" by ">", from
\* left to right.
SubstEntities(s) ==
    IF s = <<>> THEN <<>>
    ELSE IF StartsWith(s, EntityLt) THEN <<"<">> \o SubstEntities(SubSeq(s, 5, Len(s)))
    ELSE IF StartsWith(s, EntityGt) THEN <<">">> \o SubstEntities(SubSeq(s, 5, Len(s)))
    ELSE <<s[1]>> \o SubstEntities(Tail(s))

\* C15 (as stated): for an input made of text and entities only (no "<" and no
\* ">"), with render = true, the tokenizer returns the input with every "&lt;"
\* replaced by "<" and every "&gt;" by ">" as the one text, and no tag: the decoded
\* characters do not open or close a tag.
C15_EntitiesReplaced ==
    (/\ lexpc = "done"
     /\ lexRender
     /\ ~Has(lexBody, "<")
     /\ ~Has(lexBody, ">"))
        => /\ lexv.result = SubstEntities(lexBody)
           /\ ~lexv.in_tag
           /\ \A i \in 1..Len(parser.tokens) : parser.tokens[i].kind # "Tag"

\* C16 (as stated): engine.load of a data URL returns Some of the payload tokenized
\* with render = true: the text outside the "<...>" spans, which is what lex
\* returns for the payload.
C16_DataTokenized ==
    (lastLoad.some /\ UrlFromStr(lastLoad.url).kind = "Data") =>
        /\ lastLoad.ok
        /\ lastLoad.out = [some |-> TRUE, v |-> Lex(UrlFromStr(lastLoad.url).data, TRUE)]

\* C17 (as stated): engine.load of a view-source URL makes exactly one request,
\* for the inner URL, leaves the cache alone, follows no redirect (the response is
\* the server's answer to that request) and returns the body of that answer with
\* the entities substituted and "<" and ">" kept as text.
C17_ViewSource ==
    [][(lastLoad'.some /\ UrlFromStr(lastLoad'.url).kind = "ViewSource") =>
          /\ lastLoad'.nreq = 1
          /\ cache' = cache
          /\ heap' = heap
          /\ lastLoad'.response = SiteAnswer(server, UrlFromStr(lastLoad'.url).host,
                                             UrlFromStr(lastLoad'.url).path)
          /\ lastLoad'.ok
          /\ lastLoad'.out =
                IF lastLoad'.response.body.some
                THEN [some |-> TRUE, v |-> SubstEntities(lastLoad'.response.body.v)]
                ELSE NoBody]_vars

\* The names that equal name when letter case is ignored.
SameName(a, b) == ToLowercase(a) = ToLowercase(b)

\* C18 (as stated): after add(name, value) with a non-empty value, the lookups by
\* every name' that equals name ignoring case find the value as it was given:
\* get(name') holds it, has_given_value(name', value) is Some(true), and
\* get_single_value(name') is not None and is Ok(value) when it is Ok.
C18_CaseInsensitiveLookup ==
    \A i \in 1..Len(added) : \A j \in 1..Len(added[i].values) :
        \A name \in HeaderNames :
            (added[i].values[j] # <<>> /\ SameName(name, added[i].key)) =>
                /\ HeadersGet(headers, name).some
                /\ \E k \in 1..Len(HeadersGet(headers, name).values) :
                       HeadersGet(headers, name).values[k] = added[i].values[j]
                /\ HasGivenValue(headers, name, added[i].values[j]) = [some |-> TRUE, v |-> TRUE]
                /\ GetSingleValue(headers, name).kind # "None"
                /\ GetSingleValue(headers, name).kind = "Ok" =>
                       GetSingleValue(headers, name).value = added[i].values[j]

\* add was called with the name, in some letter case.
Named(name) == \E i \in 1..Len(added) : SameName(name, added[i].key)

RECURSIVE ValuesAdded(_, _)
\* The non-empty values the calls of log gave under name, in the order given.
ValuesAdded(log, name) ==
    IF log = <<>> THEN <<>>
    ELSE (IF SameName(name, Head(log).key) THEN NonEmpty(Head(log).values) ELSE <<>>)
            \o ValuesAdded(Tail(log), name)

\* C19 (as stated): after any sequence of add calls, get(name) is the list of all
\* non-empty values added under the name, in insertion order and with duplicates;
\* get_single_value(name) is the error NotOneValue(n) when that list has n # 1
\* values (after add("X", "a") and add("X", "b"): ["a", "b"] and NotOneValue(2)).
C19_OrderedMultiValue ==
    \A name \in HeaderNames :
        Named(name) =>
            /\ HeadersGet(headers, name) = [some |-> TRUE, values |-> ValuesAdded(added, name)]
            /\ Len(ValuesAdded(added, name)) # 1 =>
                   GetSingleValue(headers, name) =
                       [kind |-> "Err", n |-> Len(ValuesAdded(added, name))]

\* C20 (as stated): get_single_value(name) is None exactly when the header does not
\* exist (no add call named it), Ok(v) exactly when the header has the single value
\* v, and Err(NotOneValue(n)) when it exists with n # 1 values, empty values not
\* counting.
C20_SingleValue ==
    \A name \in HeaderNames :
        GetSingleValue(headers, name) =
            IF ~Named(name) THEN [kind |-> "None"]
            ELSE IF Len(ValuesAdded(added, name)) = 1
            THEN [kind |-> "Ok", value |-> ValuesAdded(added, name)[1]]
            ELSE [kind |-> "Err", n |-> Len(ValuesAdded(added, name))]

\* The input is an http or https URL written scheme://host[:port][path].
WellWritten(u) == u.scheme \in {SchemeHttp, SchemeHttps} /\ u.sep = <<":", "/", "/">>

\* C21: every Web URL that from_str returns has a path that begins with "/"; for an
\* http or https URL written scheme://host[:port][path], the path is "/" when none
\* was written and the written one otherwise, the port is 80 for http and 443 for
\* https when none was written, and the written one when it is a u16; when the
\* written port is not a u16, from_str fails with InvalidPort; from_str returns a
\* Web URL for no other input.
C21_WebUrlNormalized ==
    upc # "idle" =>
        /\ parsed.kind = "Web" => (parsed.path # <<>> /\ Head(parsed.path) = "/")
        /\ (parsed.kind = "Web") <=>
               (WellWritten(uinput) /\ (uinput.port.explicit => uinput.port.valid))
        /\ (WellWritten(uinput) /\ uinput.port.explicit /\ ~uinput.port.valid) =>
               parsed = UrlErr("InvalidPort")
        /\ parsed.kind = "Web" =>
               /\ parsed.scheme = (IF uinput.scheme = SchemeHttp THEN "Http" ELSE "Https")
               /\ parsed.host = uinput.host
               /\ parsed.path = (IF uinput.path = <<>> THEN <<"/">> ELSE uinput.path)
               /\ parsed.port = (IF uinput.port.explicit THEN uinput.port.value
                                  ELSE IF uinput.scheme = SchemeHttp THEN 80 ELSE 443)

\* C21 witness: "https://a.b:8000" was parsed to the Web URL of host a.b, port 8000
\* and path "/".
C21_Witness ==
    /\ upc = "parsed"
    /\ uinput.str = SchemeHttps \o <<":", "/", "/", "a", ".", "b", ":", "8", "0", "0", "0">>
    /\ parsed = WebUrl("Https", <<"a", ".", "b">>, <<"/">>, 8000)

\* C22: for every Web URL u that from_str returned, u.with_path(u.path) equals u
\* and from_str of the Display form of u, scheme://host:port/path, returns a Web URL
\* equal to u.
C22_RoundTrip ==
    upc = "shown" =>
        /\ repathed = parsed
        /\ reparsed = parsed
        /\ shown = SchemeDisplay(parsed.scheme) \o <<":", "/", "/">> \o parsed.host \o <<":">>
                       \o U16Display(parsed.port) \o parsed.path

\* C22 witness: "http://h/p/q", written without a port, was parsed, displayed as
\* "http://h:80/p/q" and parsed again to the same Web URL.
C22_Witness ==
    /\ upc = "shown"
    /\ uinput.str = SchemeHttp \o <<":", "/", "/", "h", "/", "p", "/", "q">>
    /\ shown = SchemeHttp \o <<":", "/", "/", "h", ":", "8", "0", "/", "p", "/", "q">>
    /\ reparsed = parsed
    /\ parsed.port = 80

\* A Request::make that returned a Response.
ResponseReturned == IF rsp.some THEN rsp.r.end = "ok" ELSE FALSE

\* The header lines of the wire as (lowercased name, trimmed value), in arrival order;
\* a line without ':' has an empty name.
LineName(l) == IF SplitOnce(l, ":").some THEN ToLowercase(SplitOnce(l, ":").left) ELSE <<>>

LineValue(l) == Trim(SplitOnce(l, ":").right)

AllHeaderLines(w) == \A i \in 1..Len(w.lines) : SplitOnce(w.lines[i], ":").some

LinesNamed(w, name) == SelectSeq(w.lines, LAMBDA l : LineName(l) = name)

ValidStatus(w) == StatusLineFromStr(w.status_line).ok

\* C23: a response with no body byte (a keep-alive response without a content-length
\* header included) is returned with body = None on the keep-alive path and on the
\* read-to-EOF path; body is Some only when at least one body byte was received.
C23_EmptyBodyIsNone ==
    ResponseReturned =>
        /\ wire.body = <<>> => ~rsp.r.body.some
        /\ (wire.keep /\ LinesNamed(wire, ContentLength) = <<>>) => ~rsp.r.body.some
        /\ rsp.r.body.some => (wire.body # <<>> /\ rsp.r.body.v # <<>>)

\* A well-formed chunked response: a valid status line, header lines with a
\* transfer-encoding: chunked among them and no content-length, chunks as the body.
ChunkedWire(w) ==
    /\ w.chunks # <<>>
    /\ ValidStatus(w)
    /\ AllHeaderLines(w)
    /\ LinesNamed(w, TransferEncoding) # <<>>
    /\ LinesNamed(w, ContentLength) = <<>>

\* C24: a chunked response never aborts response parsing, and the body returned is the
\* concatenation of the chunk payloads in order.
C24_ChunkedDecoded ==
    (rsp.some /\ ChunkedWire(wire)) =>
        /\ rsp.r.end \notin {"panic", "err"}
        /\ rsp.r.end = "ok" => rsp.r.body = [some |-> TRUE, v |-> Concat(wire.chunks)]

\* The values response parsing holds for a name: the code's map holds one String.
ValuesHeld(r, name) == IF name \in DOMAIN r.headers THEN <<r.headers[name]>> ELSE <<>>

\* C25: every header line contributes one trimmed value under its lowercased name, k
\* lines of one name give k values in arrival order, and a line without ':' before the
\* blank line is a header parse error.
C25_EveryHeaderLineKept ==
    (rsp.some /\ ValidStatus(wire) /\ rsp.r.end \notin {"blocked", "panic"}) =>
        /\ ~AllHeaderLines(wire) => (rsp.r.end = "err" /\ rsp.r.err = "Headers")
        /\ rsp.r.end = "ok" =>
               \A i \in 1..Len(wire.lines) :
                   ValuesHeld(rsp.r, LineName(wire.lines[i])) =
                       [j \in 1..Len(LinesNamed(wire, LineName(wire.lines[i]))) |->
                           LineValue(LinesNamed(wire, LineName(wire.lines[i]))[j])]

\* A keep-alive response with one content-length line of value N and at least N body
\* bytes on the stream.
LengthOf(w) == ParseUsize(LineValue(LinesNamed(w, ContentLength)[1])).v

FramedWire(w) ==
    /\ w.keep
    /\ ValidStatus(w)
    /\ AllHeaderLines(w)
    /\ Len(LinesNamed(w, ContentLength)) = 1
    /\ Len(w.body) >= LengthOf(w)

\* C26: with content-length N on a keep-alive connection parsing completes once N body
\* bytes have arrived, whatever follows them and whether or not the peer closes, and
\* the body is exactly those N bytes.
C26_ExactlyNBytes ==
    (rsp.some /\ FramedWire(wire)) =>
        /\ rsp.r.end = "ok"
        /\ rsp.r.body = IF LengthOf(wire) = 0 THEN NoResponseBody
                        ELSE [some |-> TRUE, v |-> SubSeq(wire.body, 1, LengthOf(wire))]

\* The entity scan an iteration of the loop is about to make.
AtEntity ==
    /\ lexpc = "loop"
    /\ UsizeLess(lexv.current_index, Len(lexBody))
    /\ lexBody[lexv.current_index + 1] = "&"
    /\ ~lexv.skip_entity

EntityScanned == ScanEntity(lexBody, lexv.current_index + 1, <<"&">>, ByteLen("&"))

\* C27: the entity look-ahead buffer never holds more than 26 bytes: the scan stops at
\* the first ";" or when the buffer reaches the cap, multi-byte graphemes included.
C27_EntityBufferCapped ==
    AtEntity =>
        /\ EntityScanned.bytes <= MAX_ENTITY_LEN
        /\ \A i \in 1..(Len(EntityScanned.entity) - 1) : EntityScanned.entity[i] # ";"

\* C28: all hops of a redirect chain go through the one Request created for the first
\* URL: at most one connection is opened, to the origin of the first URL, and every
\* request of the load, whatever its target, is written to that connection with the
\* Host header of the first URL.
C28_SingleConnection ==
    lpc # "idle" =>
        /\ Len(opened) <= 1
        /\ \A i \in 1..Len(opened) : opened[i] = Origin(lurl)
        /\ nresp >= 1 => (Len(opened) = 1 /\ Len(written) = nreq)
        /\ \A i \in 1..Len(written) :
               /\ written[i].conn = Origin(lurl)
               /\ written[i].host = lurl.host
        /\ Len(written) = nreq => written[nreq].path = target.path

\* A redirect was followed to a target of another scheme, host and port.
C28_Witness ==
    /\ lpc # "idle"
    /\ Len(written) >= 2
    /\ target.scheme # lurl.scheme
    /\ target.host # lurl.host
    /\ target.port # lurl.port
    /\ nresp = nreq

\* The entry of url is stale at time t.
Stale(c, url, t) == ~DeltaLess(t - c[url].date, c[url].max_age)

\* C29: Cache.get never changes the cache: every entry, stale ones included, stays in
\* the map with its response alive until an insert for its URL replaces it, and the
\* number of entries never decreases over insert, get and engine.load.
C29_GetLeavesCache ==
    [][/\ Cardinality(DOMAIN cache') >= Cardinality(DOMAIN cache)
       /\ \A u \in DOMAIN cache :
              /\ u \in DOMAIN cache'
              /\ cache'[u] # cache[u] => cache'[u].arc > Len(heap)
              /\ heap'[cache'[u].arc].strong >= 1
       /\ (part = "cache" /\ lastOp'.kind # "insert") => (cache' = cache)
       /\ Len(heap') = Len(heap) => cache' = cache]_vars

\* A stale entry is in the map, asked for and not served.
C29_Witness ==
    /\ part = "cache"
    /\ lastOp = OtherOp
    /\ ~handle.some
    /\ \E u \in DOMAIN cache : Stale(cache, u, now) /\ heap[cache[u].arc].strong >= 1

====
